---- MODULE Spec2Model ----
(***************************************************************************)
(* Model of the OpenLDAP syncrepl consumer (servers/slapd/syncrepl.c):     *)
(* the per-replica session state machine driven by do_syncrepl, the        *)
(* refresh gate of the shared cookie state, the retry schedule, and the    *)
(* committed / pending CSN vectors.                                        *)
(***************************************************************************)
EXTENDS Integers, Sequences, FiniteSets, TLC

(* ---- return codes and modes (syncrepl.c) ---- *)
SYNC_TIMEOUT == 0
SYNC_SHUTDOWN == -100
SYNC_ERROR == -101
SYNC_REPOLL == -102
SYNC_PAUSED == -103
SYNC_BUSY == -104
SYNCDATA_DEFAULT == 0
SYNCDATA_ACCESSLOG == 1
SYNCDATA_CHANGELOG == 2
SYNCLOG_LOGGING == 0
SYNCLOG_FALLBACK == 1
RETRYNUM_FOREVER == -1
RETRYNUM_TAIL == -2
LDAP_SUCCESS == 0
LDAP_SYNC_REFRESH_REQUIRED == 4096
LDAP_SYNC_REFRESH_ONLY == 1
LDAP_SYNC_REFRESH_AND_PERSIST == 3
MSAD_DIRSYNC == 4
LDAP_SERVER_DOWN == -1
LDAP_PROTOCOL_ERROR == 2
LDAP_OTHER == 80
LDAP_NO_SUCH_OBJECT == 32
LDAP_ALREADY_EXISTS == 68
LDAP_NO_SUCH_ATTRIBUTE == 16
LDAP_TYPE_OR_VALUE_EXISTS == 20
LDAP_NOT_ALLOWED_ON_NONLEAF == 66
NULL == "NULL"

(* ---- bounds ---- *)
MaxCount == 2
MaxAge == 2

RETRYNUM_VALID(n) == n >= RETRYNUM_FOREVER

(* ---- the configured replicas of one database, in be_syncinfo order ---- *)
be_syncinfo == <<"r1", "r2", "r3">>
Replicas == {be_syncinfo[i] : i \in 1..Len(be_syncinfo)}

VARIABLES
    si,              \* replica -> its syncinfo_t fields
    cs,              \* the cookie_state shared by the replicas
    rq,              \* replica -> its runqueue task (struct re_s)
    th,              \* replica -> the invocation of do_syncrepl working on it
    be,              \* the local database the replicas write to
    slapd_shutdown,  \* the global shutdown flag
    fault            \* TRUE once a NULL task pointer has been dereferenced

vars == <<si, cs, rq, th, be, slapd_shutdown, fault>>

St == [si |-> si, cs |-> cs, rq |-> rq, th |-> th, be |-> be, fault |-> fault, ret |-> 0]

\* the CSN a vector holds for a sid, as its time (0: none)
Sids == {1, 2}
Held(vals, sid) ==
    IF \E i \in 1..Len(vals) : vals[i].sid = sid
    THEN (CHOOSE c \in {vals[i] : i \in 1..Len(vals)} : c.sid = sid).t
    ELSE 0

\* the successor state; be.hi records the highest CSN the committed vector
\* has held for each sid
Install(st) ==
    \E s \in {st} :
    /\ si' = s.si
    /\ cs' = s.cs
    /\ rq' = s.rq
    /\ th' = s.th
    /\ be' = [s.be EXCEPT !.hi = [x \in Sids |->
                   IF Held(s.cs.cs_vals, x) > s.be.hi[x] THEN Held(s.cs.cs_vals, x) ELSE s.be.hi[x]]]
    /\ fault' = s.fault

\* An operator that reads its state more than once binds it once:
\* f(st) == Only({e(s) : s \in {st}}) is e(st).
Only(S) == CHOOSE y \in S : TRUE

SetSi(s, r, f, v) == [s EXCEPT !.si[r][f] = v]
SetTh(s, r, f, v) == [s EXCEPT !.th[r][f] = v]
SetCs(s, f, v) == [s EXCEPT !.cs[f] = v]
Ret(s, v) == [s EXCEPT !.ret = v]

(* ---- runqueue (libldap rq.c): the task is on the run list ("sched", due *)
(* after its interval), deferred ("defer", never due by itself), being run *)
(* ("running"), off both lists ("stopped") or removed ("removed") ---- *)
ldap_pvt_runqueue_isrunning(s, r) == s.rq[r].state = "running"

ldap_pvt_runqueue_stoptask(s, r) == [s EXCEPT !.rq[r].state = "stopped"]

ldap_pvt_runqueue_resched(st, r, defer) == Only({(
    [s EXCEPT !.rq[r].state = IF defer = 1 THEN "defer" ELSE "sched",
              !.rq[r].wait = IF defer = 1 THEN 0 ELSE s.rq[r].interval]) : s \in {st}})

ldap_pvt_runqueue_remove(st, r) == Only({(
    [s EXCEPT !.rq[r].state = "removed",
              !.rq[r].nremoved = IF s.rq[r].nremoved < MaxCount THEN s.rq[r].nremoved + 1 ELSE MaxCount]) : s \in {st}})

SetInterval(s, r, v) == [s EXCEPT !.rq[r].interval = v]

(* ---- retry schedule ---- *)
RECURSIVE ReinitFrom(_, _, _)
ReinitFrom(num, init, i) ==
    IF i > Len(init) \/ init[i] = RETRYNUM_TAIL
    THEN [num EXCEPT ![i] = RETRYNUM_TAIL]
    ELSE ReinitFrom([num EXCEPT ![i] = init[i]], init, i + 1)

\* a schedule that is never reinitialised
reinit_retry_never(s, r) == s

reinit_retry(st, r) == Only({(
    SetSi(s, r, "si_retrynum", ReinitFrom(s.si[r].si_retrynum, s.si[r].si_retrynum_init, 1))) : s \in {st}})

(* ---- refresh gate ---- *)
\* a gate that is granted without looking at its holder
start_refresh_nogate(s, r) == Ret(SetCs(s, "cs_refreshing", r), LDAP_SUCCESS)

\* the mutexes of the cookie state that the thread of replica r holds: the
\* pending-CSN mutex is kept across steps; cs_mutex and cs_refresh_mutex
\* are taken and released inside one critical section that takes no other
\* of the three
HeldBy(s, r) == IF s.cs.cs_pmutex = r THEN {"cs_pmutex"} ELSE {}

\* ldap_pvt_thread_mutex_lock of m by the thread of r; be.lockorder keeps
\* every pair (mutex held, mutex acquired)
acquire(s, r, m) == [s EXCEPT !.be.lockorder = @ \cup {<<h, m>> : h \in HeldBy(s, r)}]

start_refresh(st, r) == Only({(
    IF s.cs.cs_refreshing # NULL
    THEN Ret(SetSi(ldap_pvt_runqueue_stoptask(s, r), r, "si_paused", 1), SYNC_BUSY)
    ELSE Ret(SetCs(s, "cs_refreshing", r), LDAP_SUCCESS)) : s \in {acquire(st, r, "cs_refresh_mutex")}})

RECURSIVE FirstPaused(_, _)
FirstPaused(st, i) == Only({(
    IF i > Len(be_syncinfo) THEN NULL
    ELSE IF s.si[be_syncinfo[i]].si_paused # 0 THEN be_syncinfo[i]
    ELSE FirstPaused(s, i + 1)) : s \in {st}})

\* mutant: nobody is woken
Wake_nobody(s, r, sie) == s

Wake(st, r, sie) == Only({(
    IF sie = NULL THEN s
    ELSE IF s.si[sie].si_re = NULL
         THEN [s EXCEPT !.si[sie].si_paused = 0, !.fault = TRUE]
         ELSE SetInterval(ldap_pvt_runqueue_resched(
                              SetInterval(SetSi(s, sie, "si_paused", 0), sie, 0), sie, 0),
                          sie, s.si[r].si_interval)) : s \in {st}})

WakePaused(st, r) == Only({(Wake(s, r, FirstPaused(s, 1))) : s \in {st}})

\* the gate is released only by its holder; the first parked replica is woken
release_gate(st, r, reschedule) == Only({(
    IF s.cs.cs_refreshing # r THEN Ret(s, 0)
    ELSE IF reschedule = 1 THEN Ret(WakePaused(SetCs(s, "cs_refreshing", NULL), r), 1)
    ELSE Ret(SetCs(s, "cs_refreshing", NULL), 1)) : s \in {st}})

refresh_finished(st, r, reschedule) == Only({(
    release_gate(IF s.si[r].si_ctype > 0 /\ s.si[r].si_refreshDone # 0
                    /\ s.si[r].si_retrynum # NULL
                 THEN reinit_retry(s, r) ELSE s, r, reschedule)) :
        s \in {acquire(st, r, "cs_refresh_mutex")}})
(* ---- CSNs and CSN vectors.  A CSN is [sid, t]; t = 0 is the empty string. *)
(* A vector is the sequence of values; the parallel sid array is the sid of *)
(* each value.                                                              *)
CV_CSN_OK == 0
CV_CSN_OLD == 1
CV_SID_NEW == 2

Csn(sid, t) == [sid |-> sid, t |-> t]

\* ber_bvcmp on two CSN strings: time first, then sid
ber_bvcmp(a, b) ==
    IF a.t # b.t THEN (IF a.t < b.t THEN -1 ELSE 1)
    ELSE IF a.t = 0 THEN 0
    ELSE IF a.sid # b.sid THEN (IF a.sid < b.sid THEN -1 ELSE 1)
    ELSE 0

InsertAt(seq, i, v) == SubSeq(seq, 1, i - 1) \o <<v>> \o SubSeq(seq, i, Len(seq))

\* mutant: the new CSN goes to the end of the vector
slap_insert_csn_sids_last(vals, i, csn) == Append(vals, csn)

\* slap_insert_csn_sids: insert at 0-based position i
slap_insert_csn_sids(vals, i, csn) == InsertAt(vals, i + 1, csn)

RECURSIVE SortBySid(_)
SortBySid(vals) ==
    IF Len(vals) <= 1 THEN vals
    ELSE LET k == CHOOSE k \in 1..Len(vals) : \A j \in 1..Len(vals) : vals[k].sid <= vals[j].sid
                  /\ (vals[k].sid = vals[j].sid => k <= j)
         IN <<vals[k]>> \o SortBySid(SubSeq(vals, 1, k - 1) \o SubSeq(vals, k + 1, Len(vals)))

\* check_csn_age: result and 0-based slot
RECURSIVE check_csn_age_from(_, _, _)
check_csn_age_from(csn, cv, i) ==
    IF i > Len(cv) THEN [rc |-> CV_SID_NEW, slot |-> i - 1]
    ELSE IF csn.sid < cv[i].sid THEN [rc |-> CV_SID_NEW, slot |-> i - 1]
    ELSE IF cv[i].sid = csn.sid
         THEN IF ber_bvcmp(csn, cv[i]) <= 0
              THEN [rc |-> CV_CSN_OLD, slot |-> -1]
              ELSE [rc |-> CV_CSN_OK, slot |-> i - 1]
    ELSE check_csn_age_from(csn, cv, i + 1)

\* mutant: a CSN equal to the one held is not old
check_csn_age_lt(csn, cv) ==
    LET a == check_csn_age_from(csn, cv, 1)
    IN IF a.rc = CV_CSN_OLD /\ \E i \in 1..Len(cv) : cv[i] = csn
       THEN [rc |-> CV_CSN_OK, slot |-> (CHOOSE i \in 1..Len(cv) : cv[i] = csn) - 1]
       ELSE a

check_csn_age(csn, cv) == check_csn_age_from(csn, cv, 1)

\* compare_csns: [match, which]
RECURSIVE FirstSidDiff(_, _, _)
FirstSidDiff(sc1, sc2, i) ==
    IF i <= Len(sc1) /\ sc1[i].sid = sc2[i].sid THEN FirstSidDiff(sc1, sc2, i + 1) ELSE i - 1

FindSid(sc, sid) ==
    IF \E i \in 1..Len(sc) : sc[i].sid = sid
    THEN CHOOSE i \in 1..Len(sc) : sc[i].sid = sid /\ \A k \in 1..(i - 1) : sc[k].sid # sid
    ELSE 0

RECURSIVE compare_csns_from(_, _, _, _)
compare_csns_from(sc1, sc2, j, match) ==
    IF j > Len(sc2) THEN [match |-> match, which |-> 0]
    ELSE LET i == FindSid(sc1, sc2[j].sid) IN
         IF i = 0 THEN [match |-> -1, which |-> j - 1]
         ELSE LET mt == ber_bvcmp(sc1[i], sc2[j]) IN
              IF mt < 0 THEN [match |-> mt, which |-> j - 1]
              ELSE compare_csns_from(sc1, sc2, j + 1, mt)

compare_csns(sc1, sc2) ==
    IF Len(sc1) < Len(sc2)
    THEN [match |-> -1, which |-> FirstSidDiff(sc1, sc2, 1)]
    ELSE compare_csns_from(sc1, sc2, 1, 0)

\* merge_state: [vals, changed]; sc1 is the replica's cookie, sc2 the committed state
RECURSIVE merge_slow(_, _, _, _, _, _)
merge_slow(sc1, sc2, i, j, acc, changed) ==
    IF ~(i <= Len(sc1) \/ j <= Len(sc2)) THEN [vals |-> acc, changed |-> changed]
    ELSE IF i <= Len(sc1) /\ sc1[i].sid = -1 THEN merge_slow(sc1, sc2, i + 1, j, acc, changed)
    ELSE IF j > Len(sc2) \/ (i <= Len(sc1) /\ sc1[i].sid < sc2[j].sid)
         THEN merge_slow(sc1, sc2, i + 1, j, Append(acc, sc1[i]), changed)
    ELSE IF i <= Len(sc1) /\ sc1[i].sid = sc2[j].sid
         THEN IF ber_bvcmp(sc1[i], sc2[j]) < 0
              THEN merge_slow(sc1, sc2, i + 1, j + 1, Append(acc, sc2[j]), 1)
              ELSE merge_slow(sc1, sc2, i + 1, j + 1, Append(acc, sc1[i]), changed)
    ELSE IF sc2[j].sid = -1 THEN merge_slow(sc1, sc2, i, j + 1, acc, changed)
    ELSE merge_slow(sc1, sc2, i, j + 1, Append(acc, sc2[j]), 1)

\* mutant: on the fast path the second vector replaces the first
merge_state_replace(sc1, sc2) ==
    IF Len(sc1) = Len(sc2) /\ \A i \in 1..Len(sc1) : sc1[i].sid = sc2[i].sid
    THEN [vals |-> sc2, changed |-> 1]
    ELSE merge_slow(sc1, sc2, 1, 1, <<>>, 0)

merge_state(sc1, sc2) ==
    IF Len(sc1) = Len(sc2) /\ \A i \in 1..Len(sc1) : sc1[i].sid = sc2[i].sid
    THEN [vals |-> [i \in 1..Len(sc1) |-> IF ber_bvcmp(sc1[i], sc2[i]) < 0 THEN sc2[i] ELSE sc1[i]],
          changed |-> IF \E i \in 1..Len(sc1) : ber_bvcmp(sc1[i], sc2[i]) < 0 THEN 1 ELSE 0]
    ELSE merge_slow(sc1, sc2, 1, 1, <<>>, 0)

(* ---- the local database (storage engine behind si_wbe): entries by UUID, *)
(* the stored contextCSN of the context entry, the contextCSN published by  *)
(* a local provider overlay (NULL without one), and a record of the         *)
(* successful writes made with a change's own CSN                           *)
LDAP_SYNC_PRESENT == 0
LDAP_SYNC_ADD == 1
LDAP_SYNC_MODIFY == 2
LDAP_SYNC_DELETE == 3
NoCsn == Csn(0, 0)
NoEntry == [exists |-> FALSE, csn |-> NoCsn]

SetBe(s, f, v) == [s EXCEPT !.be[f] = v]

RecordWrite(st, csn) == Only({(
    IF csn = NoCsn THEN s
    ELSE IF csn \in s.be.written
         THEN SetBe(s, "rewritten", s.be.rewritten \cup {csn})
         ELSE SetBe(s, "written", s.be.written \cup {csn})) : s \in {st}})

be_put(s, uuid, csn) == [s EXCEPT !.be.entries[uuid] = [exists |-> TRUE, csn |-> csn]]
be_delete(s, uuid) == [s EXCEPT !.be.entries[uuid] = NoEntry]

\* be.named[r] remembers every UUID put on the present list since r's search was sent
presentlist_insert(st, r, uuids) == Only({(
    [s EXCEPT !.si[r].si_presentlist = @ \cup uuids,
              !.be.named[r] = @ \cup uuids]) : s \in {st}})
presentlist_free(s, r) == SetSi(s, r, "si_presentlist", {})

(* ---- check_syncprov: reload the committed vector from the overlay and    *)
(* bring the replica's own cookie up to the committed vector                *)
check_syncprov(st, r) == Only({(
    LET a == s.be.ov
        reload == a # NULL /\ Len(a) > 0 /\ a # s.cs.cs_vals
        finish(b0, changed) == Only({(
            Ret(IF changed = 1 THEN SetSi(b, r, "si_cookieAge", b.cs.cs_age) ELSE b, changed)) : b \in {b0}})
        merged(b0, mg) == Only({(
            IF Len(b.si[r].si_syncCookie) = 0
            THEN finish(SetSi(b, r, "si_syncCookie", b.cs.cs_vals), 1)
            ELSE finish(SetSi(b, r, "si_syncCookie", mg.vals), mg.changed)) : b \in {b0}})
        sync(b0) == Only({(
            IF Len(b.cs.cs_vals) > 0 /\ b.si[r].si_cookieAge # b.cs.cs_age
            THEN merged(b, merge_state(b.si[r].si_syncCookie, b.cs.cs_vals))
            ELSE finish(b, IF reload THEN 1 ELSE 0)) : b \in {b0}})
    IN sync(IF reload
            THEN [s EXCEPT !.cs.cs_vals = a, !.cs.cs_age = s.cs.cs_age + 1]
            ELSE s)) : s \in {acquire(st, r, "cs_mutex")}})

(* ---- syncrepl_updateCookie, first half: wait for cs_updating, merge the  *)
(* cookie into a clone of the committed vector                              *)
RECURSIVE merge_cookie(_, _, _, _)
merge_cookie(sc, cookie, i, changed) ==
    IF i > Len(cookie) THEN [vals |-> sc, changed |-> changed]
    ELSE LET c == cookie[i]
             j == IF \E k \in 1..Len(sc) : sc[k].sid >= c.sid
                  THEN CHOOSE k \in 1..Len(sc) : sc[k].sid >= c.sid /\ \A l \in 1..(k - 1) : sc[l].sid < c.sid
                  ELSE Len(sc) + 1
         IN IF j <= Len(sc) /\ sc[j].sid = c.sid
            THEN IF c.t > sc[j].t /\ sc[j].t > 0
                 THEN merge_cookie([sc EXCEPT ![j] = c], cookie, i + 1, 1)
                 ELSE merge_cookie(sc, cookie, i + 1, changed)
            ELSE merge_cookie(slap_insert_csn_sids(sc, j - 1, c), cookie, i + 1, 1)

updateCookie_begin(st, r, cookie) == Only({(
    LET mg == merge_cookie(s.cs.cs_vals, cookie, 1, 0) IN
    IF mg.changed = 0 THEN Ret(SetTh(s, r, "sc", <<>>), 0)
    ELSE Ret(SetTh(SetCs(s, "cs_updating", 1), r, "sc", mg.vals), 1)) :
        s \in {acquire(st, r, "cs_mutex")}})

(* second half: write contextCSN to the database, install the clone *)
\* the local provider overlay keeps its contextCSN sorted by sid and raises
\* the CSN of a sid on every write that carries a newer one
RECURSIVE syncprov_ctxcsn(_, _)
syncprov_ctxcsn(ov, vals) ==
    IF Len(vals) = 0 THEN ov
    ELSE LET c == vals[1]
             hit == {k \in 1..Len(ov) : ov[k].sid = c.sid}
             pos == Cardinality({k \in 1..Len(ov) : ov[k].sid < c.sid})
             ov1 == IF hit = {} THEN InsertAt(ov, pos + 1, c)
                    ELSE IF ber_bvcmp(ov[pos + 1], c) < 0
                         THEN SubSeq(ov, 1, pos) \o <<c>> \o SubSeq(ov, pos + 2, Len(ov))
                         ELSE ov
         IN syncprov_ctxcsn(ov1, Tail(vals))

be_modify_contextCSN(s, sc) ==
    [s EXCEPT !.be.contextCSN = sc,
              !.be.ov = IF s.be.ov = NULL THEN NULL ELSE syncprov_ctxcsn(s.be.ov, sc)]

\* mutant: the clone is installed whatever the write returned
updateCookie_end_install(st, r, modrc) == Only({(
    LET sc == s.th[r].sc
        s1 == [(IF modrc = LDAP_SUCCESS THEN be_modify_contextCSN(s, sc) ELSE s) EXCEPT
                        !.cs.cs_vals = sc,
                        !.cs.cs_age = s.cs.cs_age + 1,
                        !.si[r].si_syncCookie = sc,
                        !.si[r].si_cookieAge = s.cs.cs_age + 1]
    IN Ret(SetTh(SetCs(s1, "cs_updating", 0), r, "sc", <<>>), modrc)) :
        s \in {acquire(st, r, "cs_mutex")}})

updateCookie_end(st, r, modrc) == Only({(
    LET sc == s.th[r].sc
        s1 == IF modrc = LDAP_SUCCESS
              THEN [be_modify_contextCSN(s, sc) EXCEPT
                        !.cs.cs_vals = sc,
                        !.cs.cs_age = s.cs.cs_age + 1,
                        !.si[r].si_syncCookie = sc,
                        !.si[r].si_cookieAge = s.cs.cs_age + 1]
              ELSE s
    IN Ret(SetTh(SetCs(s1, "cs_updating", 0), r, "sc", <<>>), modrc)) :
        s \in {acquire(st, r, "cs_mutex")}})

(* ---- syncrepl_entry: apply one entry message to the local database ---- *)
\* the freshness gate against the committed vector
RECURSIVE covered_from(_, _, _)
covered_from(csn, cv, i) ==
    IF i > Len(cv) \/ ~(csn.sid <= cv[i].sid) THEN FALSE
    ELSE IF cv[i].sid = csn.sid /\ ber_bvcmp(csn, cv[i]) <= 0 THEN TRUE
    ELSE covered_from(csn, cv, i + 1)

not_new_enough(s, csn) == covered_from(csn, s.cs.cs_vals, 1)

\* mutant: only a strictly newer local entry stops the update
dn_callback_strictly(old, new) == old.csn # NoCsn /\ new # NoCsn /\ ber_bvcmp(old.csn, new) > 0

\* dn_callback: the local entry is at least as new as the incoming one
dn_callback_older(old, new) == old.csn # NoCsn /\ new # NoCsn /\ ber_bvcmp(old.csn, new) >= 0

state_drift(s, r) ==
    [s EXCEPT !.si[r].si_syncCookie = <<>>, !.cs.cs_vals = <<>>]

\* mutant: every answer of be_add but success fails the message
syncrepl_add_fatal(st, r, msg, o_csn, out) == Only({(
    IF out = LDAP_SUCCESS
    THEN Ret(RecordWrite(be_put(s, msg.uuid, IF msg.csn # NoCsn THEN msg.csn ELSE o_csn), o_csn), LDAP_SUCCESS)
    ELSE Ret(s, out)) : s \in {st}})

\* be_add answers out: on LDAP_NO_SUCH_OBJECT the missing ancestors are added
\* as glue and the entry with them; on LDAP_ALREADY_EXISTS the entry is looked
\* up by its DN and the add is retried as a modify of the entry found there
syncrepl_add(st, r, msg, o_csn, out) == Only({(
    IF out = LDAP_NO_SUCH_OBJECT
       /\ s.si[r].si_type = LDAP_SYNC_REFRESH_AND_PERSIST /\ s.si[r].si_refreshDone # 0
    THEN Ret(state_drift(s, r), LDAP_NO_SUCH_OBJECT)
    ELSE IF out \in {LDAP_SUCCESS, LDAP_NO_SUCH_OBJECT, LDAP_ALREADY_EXISTS}
    THEN Ret(RecordWrite(be_put(s, msg.uuid, IF msg.csn # NoCsn THEN msg.csn ELSE o_csn), o_csn), LDAP_SUCCESS)
    ELSE Ret(s, out)) : s \in {st}})

syncrepl_modify(st, r, msg, o_csn, out) == Only({(
    IF dn_callback_older(s.be.entries[msg.uuid], msg.csn)
    THEN Ret(s, LDAP_SUCCESS)
    ELSE IF out = LDAP_SUCCESS
    THEN Ret(RecordWrite(be_put(s, msg.uuid, IF msg.csn # NoCsn THEN msg.csn ELSE o_csn), o_csn), LDAP_SUCCESS)
    ELSE Ret(s, out)) : s \in {st}})

syncrepl_entry(st, r, msg, syncCSN, out) == Only({(
    LET o_csn == IF syncCSN # NoCsn THEN syncCSN ELSE msg.csn
        s0 == IF msg.syncstate \in {LDAP_SYNC_ADD, LDAP_SYNC_MODIFY} /\ o_csn # NoCsn
              THEN acquire(s, r, "cs_mutex") ELSE s
        s1 == IF msg.syncstate \in {LDAP_SYNC_PRESENT, LDAP_SYNC_ADD}
                 /\ s.si[r].si_refreshPresent = 0 /\ s.si[r].si_refreshDone = 0
              THEN presentlist_insert(s0, r, {msg.uuid}) ELSE s0
        found == s1.be.entries[msg.uuid].exists
    IN IF msg.syncstate = LDAP_SYNC_PRESENT THEN Ret(s1, 0)
       ELSE IF msg.syncstate = LDAP_SYNC_DELETE
       THEN IF found
            THEN IF out = LDAP_SUCCESS
                 THEN Ret(IF syncCSN # NoCsn THEN RecordWrite(be_delete(s1, msg.uuid), syncCSN)
                          ELSE be_delete(s1, msg.uuid), LDAP_SUCCESS)
                 ELSE IF out = LDAP_NO_SUCH_OBJECT THEN Ret(s1, LDAP_SUCCESS)
                 ELSE Ret(s1, out)
            ELSE Ret(s1, LDAP_SUCCESS)
       ELSE IF o_csn # NoCsn /\ not_new_enough(s1, o_csn) THEN Ret(s1, LDAP_SUCCESS)
       ELSE IF ~found THEN syncrepl_add(s1, r, msg, o_csn, out)
       ELSE syncrepl_modify(s1, r, msg, o_csn, out)) : s \in {st}})

(* ---- syncrepl_message_to_op: replay one logged operation ---- *)
syncrepl_message_to_op(st, r, msg, syncCSN, out) == Only({(
    IF out # LDAP_SUCCESS THEN Ret(s, out)
    ELSE LET c == IF msg.csn # NoCsn THEN msg.csn ELSE syncCSN
         IN Ret(RecordWrite(IF msg.syncstate = LDAP_SYNC_DELETE
                            THEN be_delete(s, msg.uuid)
                            ELSE be_put(s, msg.uuid, c), c), LDAP_SUCCESS)) : s \in {st}})

(* ---- syncrepl_del_nonpresent ---- *)
\* nonpresent_callback: is the local entry covered by the cookie
np_covered(e, cookie) ==
    IF e.csn = NoCsn THEN TRUE
    ELSE \E i \in 1..Len(cookie) :
            /\ \A k \in 1..i : cookie[k].sid <= e.csn.sid
            /\ cookie[i].sid = e.csn.sid
            /\ ber_bvcmp(e.csn, cookie[i]) <= 0

MaxCsnOf(cookie) ==
    IF Len(cookie) = 0 THEN NoCsn
    ELSE CHOOSE c \in {cookie[i] : i \in 1..Len(cookie)} :
            \A i \in 1..Len(cookie) : ber_bvcmp(cookie[i], c) <= 0

\* ber_scanf "[W]": the array of the UUIDs of a sync-id-set; a set without
\* UUIDs leaves the array pointer NULL
ber_scanf_W(uuids) == IF uuids = {} THEN NULL ELSE <<uuids>>

\* the non-present list built by the search over the replicated subtree
nonpresentlist(st, r, uuids, sc) == Only({(
    LET cookie == IF Len(sc) > 0 THEN sc ELSE s.si[r].si_syncCookie
        cand == IF uuids # NULL THEN uuids[1]
                ELSE {u \in DOMAIN s.be.entries :
                        /\ u \notin s.si[r].si_presentlist
                        /\ (s.be.multiprovider =>
                              /\ s.be.entries[u].csn # NoCsn
                              /\ ber_bvcmp(s.be.entries[u].csn, MaxCsnOf(sc)) <= 0)}
    IN {u \in cand : s.be.entries[u].exists /\ np_covered(s.be.entries[u], cookie)}) : s \in {st}})

RECURSIVE delete_all(_, _)
delete_all(st, us) == Only({(
    IF us = {} THEN s
    ELSE LET u == CHOOSE u \in us : TRUE IN delete_all(be_delete(s, u), us \ {u})) : s \in {st}})

syncrepl_del_nonpresent(st, r, uuids, sc, shutdown) == Only({(
    LET np == nonpresentlist(s, r, uuids, sc)
        del == IF shutdown /\ np # {} THEN {CHOOSE u \in np : TRUE} ELSE np
        \* be.lost: deleted by the reconciliation although named in this refresh
        \* be.skipped: left undeleted by a pass that the shutdown flag ended
        s1 == [s EXCEPT !.si[r].si_presentlist = {},
                        !.be.lost = IF uuids = NULL THEN @ \cup (del \cap s.be.named[r]) ELSE @,
                        !.be.skipped = @ \cup {[uuid |-> u, sc |-> sc] : u \in np \ del}]
    IN delete_all(s1, del)) : s \in {st}})

(* ---- the provider's answers to one search request ---- *)
NetOk == [connect_rc |-> LDAP_SUCCESS, search_rc |-> LDAP_SUCCESS, probe_rc |-> LDAP_SUCCESS,
          gotrange |-> TRUE, first |-> 1, last |-> 1]

(* ---- ldap_sync_search: take the gate where a refresh is needed, send the search ---- *)
changelog_probe(st, r, net) == Only({(
    IF net.gotrange
    THEN LET s1 == IF s.si[r].si_lastchange < net.first
                      \/ (s.si[r].si_lastchange = 0 /\ s.si[r].si_refreshDone = 0)
                   THEN SetSi(s, r, "si_logstate", SYNCLOG_FALLBACK) ELSE s
         IN IF s1.si[r].si_logstate = SYNCLOG_FALLBACK
            THEN SetSi(s1, r, "si_lastchange", net.last) ELSE s1
    ELSE SetSi(s, r, "si_logstate", SYNCLOG_FALLBACK)) : s \in {st}})

send_search(st, r, net) == Only({(
    LET s1 == SetSi(s, r, "si_type",
                    IF s.si[r].si_syncdata # SYNCDATA_DEFAULT /\ s.si[r].si_logstate = SYNCLOG_FALLBACK
                    THEN LDAP_SYNC_REFRESH_ONLY ELSE s.si[r].si_ctype)
        s2 == [s1 EXCEPT !.si[r].si_refreshDone = 0,
                         !.si[r].si_refreshPresent = 0,
                         !.si[r].si_refreshDelete = 0,
                         !.si[r].si_msgid = IF net.search_rc = LDAP_SUCCESS THEN 1 ELSE 0,
                         !.si[r].ldctl_value = IF s.si[r].si_ctype = MSAD_DIRSYNC
                                               THEN s.si[r].si_dirSyncCookie ELSE "",
                         !.be.named[r] = {}]
    IN Ret(s2, net.search_rc)) : s \in {st}})

search_mode(st, r, net) == Only({(
    IF s.si[r].si_syncdata # SYNCDATA_DEFAULT /\ s.si[r].si_logstate = SYNCLOG_LOGGING
    THEN send_search(s, r, net)
    ELSE LET go(a) == IF a.ret # LDAP_SUCCESS THEN a ELSE send_search(a, r, net)
         IN go(start_refresh(s, r))) : s \in {st}})

ldap_sync_search(s, r, net) ==
    LET s0 == SetSi(s, r, "si_msgid", 0) IN
    IF s0.si[r].si_syncdata = SYNCDATA_CHANGELOG
    THEN LET go(a) == IF a.ret # LDAP_SUCCESS THEN a
                      ELSE IF net.probe_rc # LDAP_SUCCESS THEN Ret(a, net.probe_rc)
                      ELSE search_mode(changelog_probe(a, r, net), r, net)
         IN go(start_refresh(s0, r))
    ELSE IF s0.si[r].si_syncdata = SYNCDATA_ACCESSLOG
            /\ s0.si[r].si_logstate = SYNCLOG_LOGGING
            /\ Len(s0.si[r].si_syncCookie) = 0
            /\ s0.si[r].si_refreshDone = 0
    THEN search_mode(SetSi(s0, r, "si_logstate", SYNCLOG_FALLBACK), r, net)
    ELSE search_mode(s0, r, net)

(* ---- do_syncrep1: connect, load the cookie, send the search ---- *)
load_cookie(st, r) == Only({(
    IF s.si[r].si_ctype = MSAD_DIRSYNC
    THEN IF s.si[r].si_dirSyncCookie = "" /\ s.be.dirSyncCookie # ""
         THEN SetSi(s, r, "si_dirSyncCookie", s.be.dirSyncCookie) ELSE s
    ELSE IF s.si[r].si_syncdata = SYNCDATA_CHANGELOG
    THEN IF s.si[r].si_lastchange = 0 /\ s.be.lastchange # 0
         THEN SetSi(s, r, "si_lastchange", s.be.lastchange) ELSE s
    ELSE LET s1 == IF Len(s.si[r].si_syncCookie) = 0
                   THEN LET a == IF Len(s.cs.cs_vals) = 0 /\ Len(s.be.contextCSN) > 0
                                 THEN SetCs(s, "cs_vals", SortBySid(s.be.contextCSN)) ELSE s
                        IN IF Len(a.cs.cs_vals) > 0
                           THEN SetSi(a, r, "si_syncCookie", a.cs.cs_vals) ELSE a
                   ELSE s
         IN check_syncprov(s1, r)) : s \in {st}})

do_syncrep1(st, r, net) == Only({(
    IF net.connect_rc # LDAP_SUCCESS
    THEN Ret(s, net.connect_rc)
    ELSE LET done(a) == IF a.ret # SYNC_BUSY /\ a.ret # LDAP_SUCCESS
                        THEN SetSi(Ret(refresh_finished(a, r, 1), a.ret), r, "si_ld", FALSE)
                        ELSE a
         IN done(ldap_sync_search(load_cookie(SetSi(s, r, "si_ld", TRUE), r), r, net))) : s \in {st}})
(* ---- do_syncrep2 ---- *)
Msg(type, tag, syncstate, uuid, csn, cookie, octet, refreshDone, refreshDeletes, uuids, err, bad) ==
    [type |-> type, tag |-> tag, syncstate |-> syncstate, uuid |-> uuid, csn |-> csn,
     cookie |-> cookie, octet |-> octet, refreshDone |-> refreshDone,
     refreshDeletes |-> refreshDeletes, uuids |-> uuids, err |-> err, bad |-> bad,
     dirsync |-> NULL, continueFlag |-> FALSE]
NoMsg == Msg("none", "none", 0, "u1", NoCsn, <<>>, FALSE, 0, 0, {}, 0, FALSE)
EntryMsg(syncstate, uuid, csn, cookie) ==
    Msg("entry", "none", syncstate, uuid, csn, cookie, Len(cookie) > 0, 0, 0, {}, 0, FALSE)
BadEntryMsg == Msg("entry", "none", LDAP_SYNC_ADD, "u1", NoCsn, <<>>, FALSE, 0, 0, {}, 0, TRUE)
ResultMsg(err, cookie, refreshDeletes) ==
    Msg("result", "none", 0, "u1", NoCsn, cookie, Len(cookie) > 0, 0, refreshDeletes, {}, err, FALSE)
InterMsg(tag, refreshDone, cookie) ==
    Msg("intermediate", tag, 0, "u1", NoCsn, cookie, Len(cookie) > 0, refreshDone, 0, {}, 0, FALSE)
IdSetMsg(uuids, refreshDeletes, cookie) ==
    Msg("intermediate", "SYNC_ID_SET", 0, "u1", NoCsn, cookie, Len(cookie) > 0, 0, refreshDeletes, uuids, 0, FALSE)
\* the result of a DirSync poll: its controls carry the DirSync control with
\* a cookie and the continueFlag, or ("none") some other control only
DirSyncMsg(err, cookie, continueFlag) ==
    [ResultMsg(err, <<>>, 0) EXCEPT !.dirsync = cookie, !.continueFlag = continueFlag]
TimeoutMsg == Msg("timeout", "none", 0, "u1", NoCsn, <<>>, FALSE, 0, 0, {}, 0, FALSE)
NetErrMsg == Msg("neterr", "none", 0, "u1", NoCsn, <<>>, FALSE, 0, 0, {}, 0, FALSE)

SetPc(s, r, pc) == SetTh(s, r, "pc", pc)

\* the done: label, then back in do_syncrepl with the return code
\* mutant: leaving with an error keeps the gate
do_syncrep2_done_keep(st, r, rc) == Only({(
    [s EXCEPT !.si[r].si_conn = IF rc # 0 THEN FALSE ELSE @,
              !.si[r].si_ld = IF rc # 0 THEN FALSE ELSE @,
              !.th[r].pc = "post", !.th[r].rc = rc, !.th[r].msg = NoMsg,
              !.th[r].syncCookie = <<>>, !.th[r].syncCookie_req = <<>>,
              !.th[r].punlock = -1, !.th[r].refreshing = FALSE,
              !.be.named[r] = {}]) : s \in {st}})

do_syncrep2_done(st, r, rc) == Only({(
    LET close(a0) == Only({(
            [a EXCEPT !.si[r].si_conn =
                          IF rc # 0 /\ ~(rc = LDAP_SYNC_REFRESH_REQUIRED
                                         /\ a.si[r].si_logstate = SYNCLOG_LOGGING /\ a.si[r].si_ld)
                          THEN FALSE ELSE @,
                      !.si[r].si_ld =
                          IF rc # 0 /\ ~(rc = LDAP_SYNC_REFRESH_REQUIRED
                                         /\ a.si[r].si_logstate = SYNCLOG_LOGGING /\ a.si[r].si_ld)
                          THEN FALSE ELSE @,
                      !.th[r].pc = "post", !.th[r].rc = rc, !.th[r].msg = NoMsg,
                      !.th[r].syncCookie = <<>>, !.th[r].syncCookie_req = <<>>,
                      !.th[r].punlock = -1, !.th[r].refreshing = FALSE,
                      !.be.named[r] = {}]) : a \in {a0}})
    IN close(IF s.th[r].refreshing /\ (rc # 0 \/ s.si[r].si_refreshDone # 0)
             THEN refresh_finished(s, r, 1) ELSE s)) : s \in {st}})

\* the end of one message: remember the cookie, notice a pool pause
msg_end(st, r, pausing) == Only({(
    LET s1 == IF s.th[r].msg.type # "none" /\ s.th[r].octet
              THEN SetTh(s, r, "syncCookie_req", s.th[r].syncCookie) ELSE s
        s2 == [s1 EXCEPT !.th[r].msg = NoMsg, !.th[r].syncCookie = <<>>,
                         !.th[r].octet = FALSE, !.th[r].punlock = -1,
                         !.be.named[r] = IF s.si[r].si_refreshDone # 0 THEN {} ELSE @]
    IN IF pausing
       THEN [s2 EXCEPT !.th[r].pc = "post", !.th[r].rc = SYNC_PAUSED,
                       !.th[r].syncCookie_req = <<>>, !.th[r].refreshing = FALSE]
       ELSE SetPc(s2, r, "loop")) : s \in {st}})

\* the prologue of do_syncrep2
do_syncrep2_enter(st, r, shutdown) == Only({(
    LET refreshing == s.si[r].si_refreshDone = 0
                      /\ ~(s.si[r].si_syncdata # SYNCDATA_DEFAULT
                           /\ s.si[r].si_logstate = SYNCLOG_LOGGING)
        s1 == [s EXCEPT !.th[r].refreshing = refreshing,
                        !.th[r].syncCookie_req = s.si[r].si_syncCookie]
    IN IF shutdown THEN do_syncrep2_done(s1, r, SYNC_SHUTDOWN)
       ELSE SetPc(s1, r, "loop")) : s \in {st}})

\* delta-sync apply errors that switch the replica to a full refresh
lost_sync(rc) ==
    rc \in {LDAP_ALREADY_EXISTS, LDAP_NO_SUCH_OBJECT, LDAP_NO_SUCH_ATTRIBUTE,
            LDAP_TYPE_OR_VALUE_EXISTS, LDAP_NOT_ALLOWED_ON_NONLEAF}

logerr(st, r, rc) == Only({(
    IF lost_sync(rc)
    THEN Ret(SetSi(s, r, "si_logstate", SYNCLOG_FALLBACK), LDAP_SYNC_REFRESH_REQUIRED)
    ELSE Ret(s, rc)) : s \in {st}})

\* the tail of the entry case once the apply and the cookie update are over
\* mutant: the pending-CSN mutex is released after the done label
entry_finish_locked(st, r, rc, pausing) == Only({(
    LET pu == s.th[r].punlock
        revert(sid, i) == [acquire(s, r, "cs_mutex") EXCEPT !.cs.cs_pvals[pu + 1] =
                               IF i # 0 THEN s.cs.cs_vals[i] ELSE Csn(sid, 0)]
        next(a0) == Only({(IF rc # 0 THEN do_syncrep2_done(a, r, rc) ELSE msg_end(a, r, pausing)) : a \in {a0}})
    IN SetCs(next(IF pu >= 0 /\ rc # LDAP_SUCCESS
                  THEN revert(s.cs.cs_pvals[pu + 1].sid,
                              FindSid(s.cs.cs_vals, s.cs.cs_pvals[pu + 1].sid))
                  ELSE s), "cs_pmutex", NULL)) : s \in {st}})

\* mutant: a failure leaves the pending CSN as recorded
entry_finish_norevert(st, r, rc, pausing) == Only({(
    LET next(a0) == Only({(IF rc # 0 THEN do_syncrep2_done(a, r, rc) ELSE msg_end(a, r, pausing)) : a \in {a0}})
    IN next(SetCs(s, "cs_pmutex", NULL))) : s \in {st}})

entry_finish(st, r, rc, pausing) == Only({(
    LET pu == s.th[r].punlock
        revert(sid, i) == [acquire(s, r, "cs_mutex") EXCEPT !.cs.cs_pvals[pu + 1] =
                               IF i # 0 THEN s.cs.cs_vals[i] ELSE Csn(sid, 0)]
        next(a0) == Only({(IF rc # 0 THEN do_syncrep2_done(a, r, rc) ELSE msg_end(a, r, pausing)) : a \in {a0}})
    IN next(SetCs(IF pu >= 0 /\ rc # LDAP_SUCCESS
                  THEN revert(s.cs.cs_pvals[pu + 1].sid,
                              FindSid(s.cs.cs_vals, s.cs.cs_pvals[pu + 1].sid))
                  ELSE s, "cs_pmutex", NULL))) : s \in {st}})
\* SEARCH_ENTRY up to the committed-vector check; the message is kept in th
recv_entry(st, r, msg, out, pausing) == Only({(
    LET s0 == [s EXCEPT !.th[r].msg = msg, !.th[r].punlock = -1,
                        !.th[r].octet = msg.octet, !.th[r].syncCookie = msg.cookie]
        end(a0) == Only({(IF a.ret # 0 THEN do_syncrep2_done(a, r, a.ret) ELSE msg_end(a, r, pausing)) : a \in {a0}})
        err(a0) == Only({(IF a.ret # 0 THEN logerr(a, r, a.ret) ELSE a) : a \in {a0}})
        aged(a0, rc) == Only({( IF rc = CV_CSN_OLD
                       THEN Ret(SetSi(a, r, "si_too_old", 1), 1)
                       ELSE Ret(SetPc(SetSi(a, r, "si_too_old", 0), r, "pend"), 0)) : a \in {a0}})
        age(a0) == Only({(aged(a, check_csn_age(msg.cookie[1], a.cs.cs_vals).rc)) :
                          a \in {acquire(a0, r, "cs_mutex")}})
        \* ret: 0 go on with the entry, 1 too old (the loop ends with rc 0), -1 unparsable
        stop(a0) == Only({(IF a.ret = 0 THEN a ELSE do_syncrep2_done(a, r, IF a.ret = 1 THEN 0 ELSE -1)) : a \in {a0}})
    IN IF s.si[r].si_syncdata = SYNCDATA_CHANGELOG
       THEN end(IF s.si[r].si_logstate = SYNCLOG_LOGGING
                THEN err(syncrepl_message_to_op(s, r, msg, NoCsn, out))
                ELSE syncrepl_entry(s, r, [msg EXCEPT !.syncstate = LDAP_SYNC_ADD], NoCsn, out))
       ELSE stop(IF msg.bad THEN Ret(s, -1)
                 ELSE IF msg.octet /\ Len(msg.cookie) > 0 THEN age(check_syncprov(s0, r))
                 ELSE IF msg.octet /\ s.si[r].si_too_old # 0 THEN Ret(s, 1)
                 ELSE Ret(SetPc(s0, r, "apply"), 0))) : s \in {st}})

\* get_pmutex, then the pending-vector check
pending_check(st, r) == Only({(
    LET csn == s.th[r].syncCookie[1]
        age == check_csn_age(csn, s.cs.cs_pvals)
        s1 == SetCs(acquire(s, r, "cs_pmutex"), "cs_pmutex", r)
    IN IF age.rc = CV_CSN_OLD
       THEN do_syncrep2_done(SetCs(s1, "cs_pmutex", NULL), r, 0)
       ELSE LET pv == IF age.rc = CV_CSN_OK
                      THEN [s.cs.cs_pvals EXCEPT ![age.slot + 1] = csn]
                      ELSE slap_insert_csn_sids(s.cs.cs_pvals, age.slot, csn)
            IN [SetCs(s1, "cs_pvals", pv) EXCEPT !.th[r].punlock = age.slot, !.th[r].pc = "apply"]) : s \in {st}})

\* the apply itself: log replay in delta-sync logging mode, else the entry
apply_entry(st, r, out, pausing) == Only({(
    LET msg == s.th[r].msg
        ck == s.th[r].syncCookie
        syncCSN == IF Len(ck) > 0 THEN ck[1] ELSE NoCsn
        s0 == SetCs(IF s.th[r].punlock < 0 THEN acquire(s, r, "cs_pmutex") ELSE s,
                    "cs_pmutex", r)
        lg == s.si[r].si_syncdata # SYNCDATA_DEFAULT /\ s.si[r].si_logstate = SYNCLOG_LOGGING
        err(a0) == Only({(IF a.ret = LDAP_SUCCESS THEN a ELSE logerr(a, r, a.ret)) : a \in {a0}})
        next(a0) == Only({( IF a.ret = LDAP_SUCCESS /\ Len(ck) > 0
                   THEN SetPc(SetTh(a, r, "cont", "entry"), r, "commit")
                   ELSE entry_finish(a, r, a.ret, pausing)) : a \in {a0}})
    IN next(IF lg THEN err(syncrepl_message_to_op(s0, r, msg, syncCSN, out))
            ELSE syncrepl_entry(s0, r, msg, syncCSN, out))) : s \in {st}})
\* SEARCH_RESULT up to the cookie update
cookie_match(req, ck) ==
    IF Len(ck) = 0 THEN 1
    ELSE IF Len(req) = 0 THEN -1
    ELSE compare_csns(req, ck).match

\* the cookie the next messages are compared with follows a reloaded committed vector
reload_req(c0, r) == Only({(
    IF c.ret # 0 THEN SetTh(c, r, "syncCookie_req", c.si[r].si_syncCookie) ELSE c) : c \in {c0}})

result_finish(st, r, err) == Only({(
    IF err = LDAP_SUCCESS /\ s.si[r].si_logstate = SYNCLOG_FALLBACK
    THEN do_syncrep2_done([s EXCEPT !.si[r].si_logstate = SYNCLOG_LOGGING,
                                    !.si[r].si_refreshDone = 1], r, LDAP_SYNC_REFRESH_REQUIRED)
    ELSE do_syncrep2_done(s, r, IF s.si[r].si_type = LDAP_SYNC_REFRESH_AND_PERSIST
                                THEN SYNC_ERROR ELSE SYNC_REPOLL)) : s \in {st}})

recv_result(st, r, msg, shutdown) == Only({(
    IF msg.bad THEN do_syncrep2_done(s, r, SYNC_ERROR)
    ELSE IF msg.err = LDAP_SYNC_REFRESH_REQUIRED
    THEN do_syncrep2_done(IF s.si[r].si_logstate = SYNCLOG_LOGGING
                          THEN SetSi(s, r, "si_logstate", SYNCLOG_FALLBACK) ELSE s,
                          r, LDAP_SYNC_REFRESH_REQUIRED)
    ELSE IF s.si[r].si_syncdata = SYNCDATA_CHANGELOG /\ msg.err = LDAP_SUCCESS
    THEN IF s.si[r].si_logstate = SYNCLOG_FALLBACK
         THEN do_syncrep2_done([s EXCEPT !.si[r].si_logstate = SYNCLOG_LOGGING,
                                         !.si[r].si_refreshDone = 1], r, LDAP_SYNC_REFRESH_REQUIRED)
         ELSE do_syncrep2_done(s, r, SYNC_REPOLL)
    ELSE LET s0 == [s EXCEPT !.th[r].msg = msg, !.th[r].octet = msg.octet,
                             !.th[r].syncCookie = msg.cookie]
             next(a0, match) == Only({(
                 IF Len(msg.cookie) > 0 /\ match < 0 /\ msg.err = LDAP_SUCCESS
                 THEN SetPc(SetTh(a, r, "cont", "result"), r, "commit")
                 ELSE result_finish(a, r, msg.err)) : a \in {a0}})
             present(a0, match) == Only({(
                 next(IF a.si[r].si_type # LDAP_SYNC_REFRESH_AND_PERSIST
                      THEN IF msg.refreshDeletes = 0 /\ match < 0 /\ msg.err = LDAP_SUCCESS
                           THEN syncrepl_del_nonpresent(a, r, NULL, msg.cookie, shutdown)
                           ELSE presentlist_free(a, r)
                      ELSE a, match)) : a \in {a0}})
             compare(a0) == Only({(present(a, cookie_match(a.th[r].syncCookie_req, msg.cookie))) : a \in {a0}})
         IN compare(IF s0.be.multiprovider THEN reload_req(check_syncprov(s0, r), r) ELSE s0)) : s \in {st}})

\* the cookie of a DirSync result: a new one is stored in the context entry
\* (the modify returns mod_rc) and kept; more changes remaining ask for the
\* next poll
syncrepl_dirsync_cookie(st, r, msg, mod_rc) == Only({(
    IF msg.dirsync = "none" THEN Ret(s, -1)
    ELSE IF msg.dirsync # s.si[r].si_dirSyncCookie
    THEN IF mod_rc = LDAP_SUCCESS
         THEN Ret([s EXCEPT !.be.dirSyncCookie = msg.dirsync,
                            !.si[r].si_dirSyncCookie = msg.dirsync],
                  IF msg.continueFlag THEN LDAP_SYNC_REFRESH_REQUIRED ELSE LDAP_SUCCESS)
         ELSE Ret(s, mod_rc)
    ELSE Ret(s, LDAP_SUCCESS)) : s \in {st}})

\* a search result that reaches the DirSync branch
is_dirsync_result(s, r, msg) ==
    /\ ~msg.bad /\ msg.err # LDAP_SYNC_REFRESH_REQUIRED
    /\ ~(s.si[r].si_syncdata = SYNCDATA_CHANGELOG /\ msg.err = LDAP_SUCCESS)
    /\ msg.dirsync # NULL /\ s.si[r].si_ctype = MSAD_DIRSYNC

recv_dirsync_result(st, r, msg, mod_rc) == Only({(
    LET a == syncrepl_dirsync_cookie(s, r, msg, mod_rc)
    IN do_syncrep2_done(a, r, IF a.ret = LDAP_SUCCESS THEN SYNC_REPOLL ELSE a.ret)) : s \in {st}})

\* an intermediate message up to the cookie update
inter_finish(s, r, rc, pausing) ==
    LET s1 == presentlist_free(s, r)
    IN IF rc # 0 THEN do_syncrep2_done(s1, r, rc) ELSE msg_end(s1, r, pausing)

recv_intermediate(st, r, msg, shutdown, pausing) == Only({(
    IF msg.tag \in {"REFRESH_DELETE", "REFRESH_PRESENT"} /\ s.si[r].si_refreshDone # 0
    THEN do_syncrep2_done(s, r, LDAP_PROTOCOL_ERROR)
    ELSE
    LET s0 == [s EXCEPT !.th[r].msg = msg,
                        !.th[r].octet = IF msg.tag = "SYNC_ID_SET" THEN FALSE ELSE msg.octet,
                        !.th[r].syncCookie = IF msg.tag = "SYNC_ID_SET" THEN <<>> ELSE msg.cookie]
        flags == [s0 EXCEPT !.si[r].si_refreshDelete =
                                IF msg.tag = "REFRESH_DELETE" THEN 1 ELSE @,
                            !.si[r].si_refreshPresent =
                                IF msg.tag = "REFRESH_PRESENT" THEN 1 ELSE @,
                            !.si[r].si_refreshDone = msg.refreshDone]
        next(a0, match) == Only({(
            IF match < 0
            THEN SetPc(SetTh(a, r, "cont", "inter"), r, "commit")
            ELSE msg_end(a, r, pausing)) : a \in {a0}})
        present(a0, match) == Only({(
            next(IF match < 0 /\ a.si[r].si_refreshPresent = 1 /\ msg.tag # "NEW_COOKIE"
                 THEN syncrepl_del_nonpresent(a, r, NULL, a.th[r].syncCookie, shutdown)
                 ELSE a, match)) : a \in {a0}})
        compare(a0) == Only({(present(a, cookie_match(a.th[r].syncCookie_req, a.th[r].syncCookie))) : a \in {a0}})
        reload(a0) == Only({(compare(IF a.be.multiprovider THEN reload_req(check_syncprov(a, r), r) ELSE a)) : a \in {a0}})
    IN reload(IF msg.tag \in {"REFRESH_DELETE", "REFRESH_PRESENT"}
              THEN IF s.th[r].refreshing /\ msg.refreshDone # 0
                   THEN SetTh(refresh_finished(flags, r, 1), r, "refreshing", FALSE)
                   ELSE flags
              ELSE IF msg.tag = "SYNC_ID_SET"
              THEN IF msg.refreshDeletes # 0
                   THEN LET a == syncrepl_del_nonpresent(s0, r, ber_scanf_W(msg.uuids),
                                                         msg.cookie, shutdown)
                        \* be.unlisted: deleted by the pass of a sync-id-set that
                        \* does not list it
                        IN [a EXCEPT !.be.unlisted = @ \cup
                               {u \in DOMAIN s.be.entries \ msg.uuids : s.be.entries[u].exists
                                                          /\ ~a.be.entries[u].exists}]
                   ELSE presentlist_insert(s0, r, msg.uuids)
              ELSE s0)) : s \in {st}})
\* back from syncrepl_updateCookie: the rest of the message being handled
after_cookie(st, r, rc, pausing) == Only({(
    IF s.th[r].cont = "entry" THEN entry_finish(s, r, rc, pausing)
    ELSE IF s.th[r].cont = "result" THEN result_finish(s, r, s.th[r].msg.err)
    ELSE inter_finish(s, r, rc, pausing)) : s \in {st}})

(* ---- do_syncrepl ---- *)
\* index of the retry slot in use (1-based)
RECURSIVE retry_slot(_, _)
retry_slot(num, i) ==
    IF num[i] <= 0 /\ num[i] # RETRYNUM_FOREVER /\ num[i] # RETRYNUM_TAIL
    THEN retry_slot(num, i + 1) ELSE i

IdleTh == [si_mutex |-> FALSE, pc |-> "idle", rc |-> 0, refreshing |-> FALSE, msg |-> NoMsg,
           octet |-> FALSE, syncCookie |-> <<>>, syncCookie_req |-> <<>>, punlock |-> -1,
           sc |-> <<>>, cont |-> "none"]

\* a retry branch that gives up while a count is left
do_syncrepl_retry_early(st, r, rc, num, i) == Only({(
    IF s.si[r].si_re # NULL
    THEN SetSi(ldap_pvt_runqueue_remove(s, r), r, "si_re", NULL)
    ELSE s) : s \in {st}})

\* the retry branch of the rescheduling block
do_syncrepl_retry(st, r, rc, num, i) == Only({(
    IF s.si[r].si_ctype < 1 \/ rc = SYNC_SHUTDOWN \/ num = NULL \/ num[i] = RETRYNUM_TAIL
    THEN IF s.si[r].si_re # NULL
         THEN SetSi(ldap_pvt_runqueue_remove(s, r), r, "si_re", NULL)
         ELSE s
    ELSE IF RETRYNUM_VALID(num[i])
    THEN ldap_pvt_runqueue_resched(
             SetInterval(IF num[i] > 0
                         THEN SetSi(s, r, "si_retrynum", [num EXCEPT ![i] = num[i] - 1])
                         ELSE s, r, s.si[r].si_retryinterval[i]), r, 0)
    ELSE s) : s \in {st}})

\* the rescheduling block under rq_mutex
do_syncrepl_resched(st, r, rc, dostop) == Only({(
    LET stopped(a0) == Only({(IF dostop THEN SetSi(a, r, "si_conn", FALSE) ELSE a) : a \in {a0}})
        again(a0) == Only({(IF a.si[r].si_retrynum # NULL THEN reinit_retry(a, r) ELSE a) : a \in {a0}})
        sched(a0) == Only({(
            IF rc = SYNC_PAUSED
            THEN SetInterval(ldap_pvt_runqueue_resched(SetInterval(a, r, 0), r, 0),
                             r, a.si[r].si_interval)
            ELSE IF rc = SYNC_TIMEOUT
            THEN ldap_pvt_runqueue_resched(a, r, 1)
            ELSE IF rc = SYNC_REPOLL
            THEN again(ldap_pvt_runqueue_resched(SetInterval(a, r, a.si[r].si_interval), r, 0))
            ELSE do_syncrepl_retry(a, r, rc, a.si[r].si_retrynum,
                                   IF a.si[r].si_retrynum = NULL THEN 0
                                   ELSE retry_slot(a.si[r].si_retrynum, 1))) : a \in {a0}})
        idle(a) == [a EXCEPT !.th[r] = IdleTh]
    IN idle(sched(stopped(IF ldap_pvt_runqueue_isrunning(s, r)
                          THEN ldap_pvt_runqueue_stoptask(s, r) ELSE s)))) : s \in {st}})

\* mutant: whatever do_syncrep2 returned, wait for more on the connection
do_syncrepl_finish_defer(st, r, rc) ==
    do_syncrepl_resched(SetSi(st, r, "si_conn", TRUE), r, SYNC_TIMEOUT, FALSE)

\* back from do_syncrep2: keep or stop the connection, reschedule; a search
\* that failed skips this and reschedules with its own return code
do_syncrepl_finish(st, r, rc) == Only({(
    IF rc = SYNC_PAUSED THEN do_syncrepl_resched(s, r, rc, FALSE)
    ELSE IF rc = SYNC_TIMEOUT
    THEN do_syncrepl_resched(SetSi(s, r, "si_conn", TRUE), r, rc, FALSE)
    ELSE do_syncrepl_resched(s, r, rc, s.si[r].si_conn)) : s \in {st}})

\* after do_syncrep2: re-issue the search or leave with the return code
do_syncrepl_reload(st, r, net) == Only({(
    LET rc == s.th[r].rc
        next(a0) == Only({( IF a.ret = LDAP_SUCCESS THEN SetPc(a, r, "rep2")
                   ELSE do_syncrepl_resched(a, r, a.ret, FALSE)) : a \in {a0}})
    IN IF rc = LDAP_SYNC_REFRESH_REQUIRED
       THEN IF s.si[r].si_logstate = SYNCLOG_LOGGING
            THEN next(ldap_sync_search(s, r, net))
            ELSE do_syncrepl_finish(s, r, SYNC_PAUSED)
       ELSE do_syncrepl_finish(s, r, rc)) : s \in {st}})

\* mutant: a resumed invocation sends the search again
do_syncrepl_search_again(st, r, net) == Only({(
    LET next(a0) == Only({( IF a.ret = SYNC_BUSY THEN [a EXCEPT !.th[r] = IdleTh]
                   ELSE IF a.ret = LDAP_SUCCESS THEN SetPc(a, r, "rep2")
                   ELSE do_syncrepl_resched(a, r, a.ret, FALSE)) : a \in {a0}})
    IN next(IF ~s.si[r].si_ld
            THEN do_syncrep1(presentlist_free(s, r), r, net)
            ELSE ldap_sync_search(s, r, net))) : s \in {st}})

\* establish the session or resume the search
do_syncrepl_search(st, r, net) == Only({(
    LET next(a0) == Only({( IF a.ret = SYNC_BUSY THEN [a EXCEPT !.th[r] = IdleTh]
                   ELSE IF a.ret = LDAP_SUCCESS THEN SetPc(a, r, "rep2")
                   ELSE do_syncrepl_resched(a, r, a.ret, FALSE)) : a \in {a0}})
    IN next(IF ~s.si[r].si_ld
            THEN do_syncrep1(presentlist_free(s, r), r, net)
            ELSE IF s.si[r].si_msgid = 0
            THEN ldap_sync_search(s, r, net)
            ELSE Ret(s, LDAP_SUCCESS))) : s \in {st}})

\* the prologue: the first shutdown check returns at once
do_syncrepl_enter(st, r, shutdown) == Only({(
    IF shutdown THEN [s EXCEPT !.th[r] = IdleTh]
    ELSE [s EXCEPT !.th[r].si_mutex = TRUE,
                   !.si[r].si_too_old = 0, !.th[r].pc = "entry"]) : s \in {st}})

\* the second shutdown check under si_mutex, then the session
do_syncrepl_session(st, r, net, shutdown) == Only({(
    IF shutdown
    THEN [s EXCEPT !.si[r].si_conn = IF s.si[r].si_ld THEN FALSE ELSE @,
                   !.si[r].si_ld = FALSE, !.th[r] = IdleTh]
    ELSE do_syncrepl_search(s, r, net)) : s \in {st}})

(* ---- actions: one per step of a do_syncrepl invocation ---- *)
Alive == ~fault

\* the runqueue starts a due task
RunTask(r) ==
    /\ Alive /\ th[r].pc = "idle" /\ rq[r].state = "sched"
    /\ Install(do_syncrepl_enter([St EXCEPT !.rq[r].state = "running"], r, slapd_shutdown))
    /\ UNCHANGED slapd_shutdown

\* data arrives on the connection of a deferred task
ConnEvent(r) ==
    /\ Alive /\ th[r].pc = "idle" /\ rq[r].state = "defer" /\ si[r].si_conn
    /\ Install(do_syncrepl_enter(St, r, slapd_shutdown))
    /\ UNCHANGED slapd_shutdown

Establish(r, Nets) ==
    /\ Alive /\ th[r].pc = "entry"
    /\ \E net \in Nets : Install(do_syncrepl_session(St, r, net, slapd_shutdown))
    /\ UNCHANGED slapd_shutdown

Rep2(r) ==
    /\ Alive /\ th[r].pc = "rep2"
    /\ Install(do_syncrep2_enter(St, r, slapd_shutdown))
    /\ UNCHANGED slapd_shutdown

Recv(r, Msgs, Outs, Pauses) ==
    /\ Alive /\ th[r].pc = "loop" /\ cs.cs_age < MaxAge
    /\ \E msg \in Msgs, out \in Outs, pausing \in Pauses :
         Install(IF msg.type = "timeout" THEN do_syncrep2_done(St, r, 0)
                 ELSE IF msg.type = "neterr" THEN do_syncrep2_done(St, r, LDAP_SERVER_DOWN)
                 ELSE IF slapd_shutdown THEN do_syncrep2_done(St, r, SYNC_SHUTDOWN)
                 ELSE IF msg.type = "entry" THEN recv_entry(St, r, msg, out, pausing)
                 ELSE IF msg.type = "result" /\ is_dirsync_result(St, r, msg)
                 THEN recv_dirsync_result(St, r, msg, out)
                 ELSE IF msg.type = "result" THEN recv_result(St, r, msg, FALSE)
                 ELSE recv_intermediate(St, r, msg, FALSE, pausing))
    /\ UNCHANGED slapd_shutdown

Pend(r) ==
    /\ Alive /\ th[r].pc = "pend" /\ cs.cs_pmutex = NULL
    /\ Install(pending_check(St, r))
    /\ UNCHANGED slapd_shutdown

Apply(r, Outs, Pauses) ==
    /\ Alive /\ th[r].pc = "apply"
    /\ th[r].punlock >= 0 \/ cs.cs_pmutex = NULL
    /\ \E out \in Outs, pausing \in Pauses : Install(apply_entry(St, r, out, pausing))
    /\ UNCHANGED slapd_shutdown

\* mutant: the committer does not wait for the updating flag
Commit_nowait(r, Pauses) ==
    /\ Alive /\ th[r].pc = "commit"
    /\ \E pausing \in Pauses :
         LET s1 == updateCookie_begin(St, r, th[r].syncCookie)
         IN Install(IF s1.ret = 0 THEN after_cookie(s1, r, 0, pausing)
                    ELSE SetPc(s1, r, "commit2"))
    /\ UNCHANGED slapd_shutdown

\* syncrepl_updateCookie up to the write of the contextCSN: waits on cs_cond
\* while cs_updating is set
Commit(r, Pauses) ==
    /\ Alive /\ th[r].pc = "commit" /\ cs.cs_updating = 0
    /\ \E pausing \in Pauses :
         LET s1 == updateCookie_begin(St, r, th[r].syncCookie)
         IN Install(IF s1.ret = 0 THEN after_cookie(s1, r, 0, pausing)
                    ELSE SetPc(s1, r, "commit2"))
    /\ UNCHANGED slapd_shutdown

Commit2(r, Outs, Pauses) ==
    /\ Alive /\ th[r].pc = "commit2"
    /\ \E modrc \in Outs, pausing \in Pauses :
         LET s1 == updateCookie_end(St, r, modrc)
         IN Install(after_cookie(s1, r, modrc, pausing))
    /\ UNCHANGED slapd_shutdown

\* a sync-id-set without UUIDs and without refreshDeletes: the loop over the
\* array reads through the NULL pointer; the outcome where the read goes
\* through is the one Recv takes, this is the one where it does not
RecvNullSet(r, Msgs) ==
    /\ Alive /\ th[r].pc = "loop" /\ cs.cs_age < MaxAge /\ ~slapd_shutdown
    /\ \E msg \in Msgs :
         /\ msg.type = "intermediate" /\ msg.tag = "SYNC_ID_SET"
         /\ msg.refreshDeletes = 0 /\ ber_scanf_W(msg.uuids) = NULL
    /\ fault' = TRUE
    /\ UNCHANGED <<si, cs, rq, th, be, slapd_shutdown>>

Reload(r, Nets) ==
    /\ Alive /\ th[r].pc = "post"
    /\ \E net \in Nets : Install(do_syncrepl_reload(St, r, net))
    /\ UNCHANGED slapd_shutdown

\* slapd is told to shut down while a result or an intermediate message is
\* being handled: a deletion pass of the message sees the flag
RecvStop(r, Msgs) ==
    /\ Alive /\ th[r].pc = "loop" /\ cs.cs_age < MaxAge /\ ~slapd_shutdown
    /\ \E msg \in Msgs :
         /\ msg.type \in {"result", "intermediate"}
         /\ Install(IF msg.type = "result" THEN recv_result(St, r, msg, TRUE)
                    ELSE recv_intermediate(St, r, msg, TRUE, FALSE))
    /\ slapd_shutdown' = TRUE

Shutdown ==
    /\ Alive /\ ~slapd_shutdown
    /\ slapd_shutdown' = TRUE
    /\ UNCHANGED <<si, cs, rq, th, be, fault>>
(* ---- the directory tree: glue ancestors and their removal ---- *)
\* a DN is the sequence of its RDNs from the suffix down; be.dit maps a DN to
\* "none", "glue" (objectClass glue) or "real"
MaxDepth == 2
RDNs == {"a", "b"}
be_nsuffix == <<"dc">>
RECURSIVE Below(_, _)
Below(dn, n) ==
    IF n = 0 THEN {dn}
    ELSE {dn} \cup UNION {Below(Append(dn, x), n - 1) : x \in RDNs}
DNs == Below(be_nsuffix, MaxDepth)
be_issuffix(dn) == dn = be_nsuffix
dnParent(dn) == SubSeq(dn, 1, Len(dn) - 1)
Children(dit, dn) == {c \in DNs : Len(c) = Len(dn) + 1 /\ dnParent(c) = dn /\ dit[c] # "none"}

\* the storage engine: an entry is added under an existing parent
bi_op_add(dit, dn, kind) ==
    IF dit[dn] # "none" THEN [dit |-> dit, sr_err |-> LDAP_ALREADY_EXISTS]
    ELSE IF ~be_issuffix(dn) /\ dit[dnParent(dn)] = "none"
    THEN [dit |-> dit, sr_err |-> LDAP_NO_SUCH_OBJECT]
    ELSE [dit |-> [dit EXCEPT ![dn] = kind], sr_err |-> LDAP_SUCCESS]
\* the storage engine: a leaf is deleted; o_delete_glue_parent is set when the
\* parent is a glue entry that this delete made childless
bi_op_delete(dit, dn) ==
    IF dit[dn] = "none"
    THEN [dit |-> dit, sr_err |-> LDAP_NO_SUCH_OBJECT, o_delete_glue_parent |-> FALSE]
    ELSE IF Children(dit, dn) # {}
    THEN [dit |-> dit, sr_err |-> LDAP_NOT_ALLOWED_ON_NONLEAF, o_delete_glue_parent |-> FALSE]
    ELSE [dit |-> [dit EXCEPT ![dn] = "none"], sr_err |-> LDAP_SUCCESS,
          o_delete_glue_parent |->
              /\ ~be_issuffix(dn) /\ dit[dnParent(dn)] = "glue"
              /\ Children(dit, dnParent(dn)) = {dn}]

\* while ( rs_delete.sr_err == LDAP_SUCCESS && op->o_delete_glue_parent ):
\* o_req_ndn is the entry deleted last; unless it is the suffix, its parent is
\* deleted next
delete_glue_parents(d, o_req_ndn) ==
    LET RECURSIVE walk(_, _)
        walk(x, dn) ==
            IF x.sr_err = LDAP_SUCCESS /\ x.o_delete_glue_parent
            THEN IF ~be_issuffix(dn)
                 THEN walk(bi_op_delete(x.dit, dnParent(dn)), dnParent(dn))
                 ELSE x.dit
            ELSE x.dit
    IN walk(d, o_req_ndn)

\* syncrepl_entry, LDAP_SYNC_DELETE of the entry found at dn
entry_delete(dit, dn) == delete_glue_parents(bi_op_delete(dit, dn), dn)

\* syncrepl_del_nonpresent, one entry of the non-present list: an entry that
\* still has children is turned into a glue entry
nonpresent_delete(dit, dn) ==
    LET d == bi_op_delete(dit, dn)
    IN IF d.sr_err = LDAP_NOT_ALLOWED_ON_NONLEAF
       THEN [dit EXCEPT ![dn] = "glue"]
       ELSE delete_glue_parents(d, dn)

\* syncrepl_add_glue_ancestors: glue entries from the suffix down to the
\* parent of dn; an ancestor that exists is left alone
RECURSIVE syncrepl_add_glue_ancestors(_, _, _)
syncrepl_add_glue_ancestors(dit, dn, i) ==
    IF i >= Len(dn) THEN dit
    ELSE syncrepl_add_glue_ancestors(bi_op_add(dit, SubSeq(dn, 1, i), "glue").dit, dn, i + 1)
syncrepl_add_glue(dit, dn) ==
    bi_op_add(syncrepl_add_glue_ancestors(dit, dn, Len(be_nsuffix)), dn, "real").dit

\* syncrepl_entry, LDAP_SYNC_ADD of an entry not found by its UUID: a missing
\* parent is made up with glue, a glue entry at the DN becomes the entry
entry_add(dit, dn) ==
    LET a == bi_op_add(dit, dn, "real")
    IN IF a.sr_err = LDAP_NO_SUCH_OBJECT THEN syncrepl_add_glue(dit, dn)
       ELSE IF a.sr_err = LDAP_ALREADY_EXISTS THEN [dit EXCEPT ![dn] = "real"]
       ELSE a.dit

TreeAdd(dn) ==
    /\ Alive /\ be.dit[dn] # "real"
    /\ be' = [be EXCEPT !.dit = entry_add(be.dit, dn)]
    /\ UNCHANGED <<si, cs, rq, th, slapd_shutdown, fault>>
TreeDelete(dn) ==
    /\ Alive /\ be.dit[dn] = "real"
    /\ be' = [be EXCEPT !.dit = entry_delete(be.dit, dn)]
    /\ UNCHANGED <<si, cs, rq, th, slapd_shutdown, fault>>
TreeNonPresent(dn) ==
    /\ Alive /\ be.dit[dn] = "real"
    /\ be' = [be EXCEPT !.dit = nonpresent_delete(be.dit, dn)]
    /\ UNCHANGED <<si, cs, rq, th, slapd_shutdown, fault>>

(* ---- delta-sync modifications: the modification builder for access-log *)
(* records, the conflict resolver of syncrepl_op_modify, and the modify of  *)
(* the storage engine                                                       *)
LDAP_MOD_ADD == 0
LDAP_MOD_DELETE == 1
LDAP_MOD_REPLACE == 2
SLAP_MOD_SOFTDEL == 4097
SLAP_MOD_INTERNAL == 8
LDAP_CONSTRAINT_VIOLATION == 19

\* one multi-valued and one single-valued attribute
ModAttrs == {"a", "s"}
ValOrder == <<"x", "y">>
ModVals == {ValOrder[i] : i \in 1..Len(ValOrder)}
is_at_single_value(desc) == desc = "s"

Mod(op, desc, vals) == [sml_op |-> op, sml_desc |-> desc, sml_values |-> vals, sml_flags |-> 0]

\* a reqMod value "<attr>:<op-char>[ <value>]"; an empty attribute starts a new mod
Line(desc, op, val) == [desc |-> desc, op |-> op, val |-> val]
NewModLine == Line("", 0, NULL)

\* the access log writes one line per value (one line without a value for a
\* mod without values) and separates the mods
RECURSIVE reqMod(_)
reqMod(mods) ==
    IF Len(mods) = 0 THEN <<>>
    ELSE LET m == mods[1]
             op == IF m.sml_op = SLAP_MOD_SOFTDEL THEN LDAP_MOD_DELETE ELSE m.sml_op
             vs == SelectSeq(ValOrder, LAMBDA v : v \in m.sml_values)
             ls == IF Len(vs) = 0 THEN <<Line(m.sml_desc, op, NULL)>>
                   ELSE [i \in 1..Len(vs) |-> Line(m.sml_desc, op, vs[i])]
         IN ls \o <<NewModLine>> \o reqMod(Tail(mods))

\* syncrepl_accesslog_mods: mods is the list built so far, open whether the
\* last mod may take further values
RECURSIVE syncrepl_accesslog_mods_from(_, _, _, _)
syncrepl_accesslog_mods_from(vals, i, mods, open) ==
    IF i > Len(vals) THEN mods
    ELSE LET l == vals[i] IN
         IF l.desc = "" THEN syncrepl_accesslog_mods_from(vals, i + 1, mods, FALSE)
         ELSE LET fresh == ~open \/ mods[Len(mods)].sml_desc # l.desc
                               \/ mods[Len(mods)].sml_op # l.op
                  op == IF is_at_single_value(l.desc) /\ l.op = LDAP_MOD_ADD THEN LDAP_MOD_REPLACE
                        ELSE IF is_at_single_value(l.desc) /\ l.op = LDAP_MOD_DELETE
                             THEN SLAP_MOD_SOFTDEL
                        ELSE l.op
                  m1 == IF fresh THEN Append(mods, Mod(op, l.desc, {})) ELSE mods
                  m2 == IF l.val = NULL THEN m1
                        ELSE [m1 EXCEPT ![Len(m1)].sml_values = @ \cup {l.val}]
              IN syncrepl_accesslog_mods_from(vals, i + 1, m2, TRUE)

syncrepl_accesslog_mods(vals) == syncrepl_accesslog_mods_from(vals, 1, <<>>, FALSE)

\* mods_dup: [new, orig]; the entryCSN of the mod is kept apart from the list
\* (an older mod loses it), a replace of an older mod is split into a delete
\* of the attribute and an add, and an older replace without values becomes
\* a delete in the original list too
RECURSIVE mods_dup(_, _)
mods_dup(modlist, match) ==
    IF Len(modlist) = 0 THEN [new |-> <<>>, orig |-> <<>>]
    ELSE LET m == modlist[1]
             rest == mods_dup(Tail(modlist), match)
             older == match < 0
             empty == older /\ m.sml_values = {} /\ m.sml_op = LDAP_MOD_REPLACE
             split == older /\ ~empty /\ m.sml_op = LDAP_MOD_REPLACE
             m0 == IF empty THEN [m EXCEPT !.sml_op = LDAP_MOD_DELETE] ELSE m
             del == IF split THEN <<Mod(LDAP_MOD_DELETE, m.sml_desc, {})>> ELSE <<>>
             cp == [m0 EXCEPT !.sml_flags = 0,
                              !.sml_op = IF split THEN LDAP_MOD_ADD ELSE m0.sml_op]
         IN [new |-> del \o <<cp>> \o rest.new, orig |-> <<m0>> \o rest.orig]

\* compare_vals: the values of m2 are taken out of m1
compare_vals(m1, m2) == [m1 EXCEPT !.sml_values = @ \ m2.sml_values]

\* one step of the loop in syncrepl_resolve_cb: the older mod m1 against the
\* newer mod m2 of the same attribute; <<>> where m1 is dropped
\* mutant: a newer add or replace leaves the older mod as it is
resolve_add_keep(m1, m2, e) == <<m1>>

resolve_add(m1, m2, e) ==
    IF m2.sml_op \notin {LDAP_MOD_ADD, LDAP_MOD_REPLACE} THEN <<m1>>
    ELSE IF is_at_single_value(m2.sml_desc) THEN <<>>
    ELSE IF m1.sml_op = LDAP_MOD_DELETE /\ m2.sml_op = LDAP_MOD_REPLACE THEN <<>>
    ELSE IF m1.sml_op = LDAP_MOD_DELETE /\ m1.sml_values = {} /\ e[m1.sml_desc] = {} THEN <<>>
    ELSE LET m == IF m1.sml_op = LDAP_MOD_DELETE /\ m1.sml_values = {}
                  THEN [m1 EXCEPT !.sml_values = e[m1.sml_desc]] ELSE m1
             c == compare_vals(m, m2)
         IN IF c.sml_values = {} THEN <<>> ELSE <<c>>

\* mutant: a newer replace cancels nothing
resolve_pair_noreplace(m1, m2, e) ==
    IF m1.sml_desc # m2.sml_desc \/ m2.sml_op = LDAP_MOD_REPLACE THEN <<m1>>
    ELSE IF m2.sml_op \in {LDAP_MOD_DELETE, SLAP_MOD_SOFTDEL}
    THEN IF m2.sml_values = {} THEN <<>>
         ELSE IF m1.sml_op \in {LDAP_MOD_DELETE, SLAP_MOD_SOFTDEL}
              THEN IF m1.sml_values = {}
                   THEN resolve_add([m1 EXCEPT !.sml_flags = SLAP_MOD_INTERNAL], m2, e)
                   ELSE LET c == compare_vals(m1, m2)
                        IN IF c.sml_values = {} THEN <<>> ELSE resolve_add(c, m2, e)
         ELSE IF m1.sml_op = LDAP_MOD_ADD
              THEN LET c == compare_vals(m1, m2)
                   IN IF c.sml_values = {} THEN <<>> ELSE resolve_add(c, m2, e)
         ELSE resolve_add(m1, m2, e)
    ELSE resolve_add(m1, m2, e)

resolve_pair(m1, m2, e) ==
    IF m1.sml_desc # m2.sml_desc THEN <<m1>>
    ELSE IF m2.sml_op \in {LDAP_MOD_DELETE, SLAP_MOD_SOFTDEL, LDAP_MOD_REPLACE}
    THEN IF m2.sml_op = LDAP_MOD_REPLACE \/ m2.sml_values = {} THEN <<>>
         ELSE IF m1.sml_op \in {LDAP_MOD_DELETE, SLAP_MOD_SOFTDEL}
              THEN IF m1.sml_values = {}
                   THEN resolve_add([m1 EXCEPT !.sml_flags = SLAP_MOD_INTERNAL], m2, e)
                   ELSE LET c == compare_vals(m1, m2)
                        IN IF c.sml_values = {} THEN <<>> ELSE resolve_add(c, m2, e)
         ELSE IF m1.sml_op = LDAP_MOD_ADD
              THEN LET c == compare_vals(m1, m2)
                   IN IF c.sml_values = {} THEN <<>> ELSE resolve_add(c, m2, e)
         ELSE resolve_add(m1, m2, e)
    ELSE resolve_add(m1, m2, e)

RECURSIVE resolve_each(_, _, _)
resolve_each(oldmods, m2, e) ==
    IF Len(oldmods) = 0 THEN <<>>
    ELSE resolve_pair(oldmods[1], m2, e) \o resolve_each(Tail(oldmods), m2, e)

\* syncrepl_resolve_cb for one record of the log
RECURSIVE syncrepl_resolve_cb(_, _, _)
syncrepl_resolve_cb(oldmods, newmods, e) ==
    IF Len(newmods) = 0 THEN oldmods
    ELSE syncrepl_resolve_cb(resolve_each(oldmods, newmods[1], e), Tail(newmods), e)

\* mutant: an older mod is applied without looking at the log
resolve_log_skip(oldmods, log, csn, e) == oldmods

\* the search of the log: the records of this entry with entryCSN >= csn,
\* in the order they were logged
RECURSIVE resolve_log(_, _, _, _)
resolve_log(oldmods, log, csn, e) ==
    IF Len(log) = 0 THEN oldmods
    ELSE LET rec == log[1]
             hit == ber_bvcmp(rec.csn, csn) >= 0
         IN resolve_log(IF hit THEN syncrepl_resolve_cb(oldmods, syncrepl_accesslog_mods(rec.reqMod), e)
                        ELSE oldmods,
                        Tail(log), csn, e)

\* the last pass of syncrepl_op_modify over the list that will be applied
idempotent(ml) ==
    IF ml.sml_flags = SLAP_MOD_INTERNAL
    THEN [ml EXCEPT !.sml_flags = 0, !.sml_op = SLAP_MOD_SOFTDEL]
    ELSE IF ml.sml_op = LDAP_MOD_DELETE THEN [ml EXCEPT !.sml_op = SLAP_MOD_SOFTDEL]
    ELSE IF ml.sml_op = LDAP_MOD_ADD /\ is_at_single_value(ml.sml_desc)
         THEN [ml EXCEPT !.sml_op = LDAP_MOD_REPLACE]
    ELSE ml

\* the modify of the storage engine: [e, rc]; the list is applied as a whole
\* or not at all
RECURSIVE bi_op_modify(_, _)
bi_op_modify(e, mods) ==
    IF Len(mods) = 0 THEN [e |-> e, rc |-> LDAP_SUCCESS]
    ELSE LET m == mods[1]
             cur == e[m.sml_desc]
             vs == m.sml_values
             bad == IF m.sml_op = LDAP_MOD_ADD
                    THEN IF vs \cap cur # {} THEN LDAP_TYPE_OR_VALUE_EXISTS ELSE 0
                    ELSE IF m.sml_op = LDAP_MOD_DELETE
                    THEN IF cur = {} \/ ~(vs \subseteq cur) THEN LDAP_NO_SUCH_ATTRIBUTE ELSE 0
                    ELSE 0
             new == IF m.sml_op = LDAP_MOD_ADD THEN cur \cup vs
                    ELSE IF m.sml_op = LDAP_MOD_REPLACE THEN vs
                    ELSE IF vs = {} THEN {} ELSE cur \ vs
             big == is_at_single_value(m.sml_desc) /\ Cardinality(new) > 1
             next == bi_op_modify([e EXCEPT ![m.sml_desc] = new], Tail(mods))
         IN IF bad # 0 THEN [e |-> e, rc |-> bad]
            ELSE IF big THEN [e |-> e, rc |-> LDAP_CONSTRAINT_VIOLATION]
            ELSE IF next.rc # LDAP_SUCCESS THEN [e |-> e, rc |-> next.rc]
            ELSE next

\* syncrepl_op_modify and the modify behind it for the change chg = [csn,
\* reqMod] of the entry u1: [attrs, csn, log, rc]
syncrepl_op_modify(attrs, entryCSN, log, vals, chg) ==
    LET modlist == syncrepl_accesslog_mods(chg.reqMod)
        match == ber_bvcmp(chg.csn, entryCSN)
        same(rc) == [attrs |-> attrs, csn |-> entryCSN, log |-> log, rc |-> rc]
    IN IF check_csn_age(chg.csn, vals).rc = CV_CSN_OLD THEN same(LDAP_TYPE_OR_VALUE_EXISTS)
       ELSE IF match = 0 THEN same(LDAP_TYPE_OR_VALUE_EXISTS)
       ELSE LET dup == mods_dup(modlist, match)
                newlist == IF match < 0 THEN resolve_log(dup.new, log, chg.csn, attrs)
                           ELSE dup.new
                ml == [i \in 1..Len(newlist) |-> idempotent(newlist[i])]
                res == bi_op_modify(attrs, ml)
            IN IF res.rc # LDAP_SUCCESS THEN same(res.rc)
               ELSE [attrs |-> res.e,
                     csn |-> IF match > 0 THEN chg.csn ELSE entryCSN,
                     log |-> Append(log, [csn |-> chg.csn, reqMod |-> reqMod(dup.orig)]),
                     rc |-> LDAP_SUCCESS]

(* ---- configuration: one replica directive, a line of key=value words ---- *)
GOT_REQUIRED == {"rid", "provider", "searchbase"}
SLAP_SYNC_RID_MAX == 999

\* lutil_atoi on the words the directives use; a word that is not a number
\* fails
lutil_atoi(val) ==
    CASE val = "1" -> [rc |-> 0, v |-> 1] [] val = "2" -> [rc |-> 0, v |-> 2]
      [] val = "7" -> [rc |-> 0, v |-> 7] [] val = "1000" -> [rc |-> 0, v |-> 1000]
      [] OTHER -> [rc |-> -1, v |-> 0]

\* the naming context of the database is dc=a
be_issubordinate(base) == base \in {"dc=a", "ou=x,dc=a"}

\* the syncinfo_t as add_syncrepl allocates it
CallocSi ==
    [si_rid |-> 0, sb_uri |-> NULL, si_base |-> NULL, si_ctype |-> LDAP_SYNC_REFRESH_ONLY,
     si_interval |-> 86400, si_retrynum |-> NULL, si_retryinterval |-> NULL, si_got |-> {}]

parse_syncrepl_retry(si0, val) ==
    IF val = "undefined"
    THEN [rc |-> 0, si |-> [si0 EXCEPT !.si_retrynum = <<RETRYNUM_FOREVER, RETRYNUM_TAIL>>,
                                       !.si_retryinterval = <<3600, 0>>]]
    ELSE [rc |-> 1, si |-> si0]

\* one word of the line
parse_syncrepl_arg(si0, arg) ==
    LET key == arg[1]
        val == arg[2]
        got(s) == [rc |-> 0, si |-> [s EXCEPT !.si_got = @ \cup {key}]]
        err == [rc |-> -1, si |-> si0]
    IN  CASE key = "rid" ->
               IF lutil_atoi(val).rc # 0 THEN err
               ELSE IF lutil_atoi(val).v > SLAP_SYNC_RID_MAX \/ lutil_atoi(val).v < 0 THEN err
               ELSE got([si0 EXCEPT !.si_rid = lutil_atoi(val).v])
          [] key = "provider" -> got([si0 EXCEPT !.sb_uri = val])
          [] key = "searchbase" -> got([si0 EXCEPT !.si_base = val])
          [] key = "type" ->
               IF val = "refreshOnly"
               THEN got([si0 EXCEPT !.si_ctype = LDAP_SYNC_REFRESH_ONLY])
               ELSE IF val = "refreshAndPersist"
               THEN got([si0 EXCEPT !.si_ctype = LDAP_SYNC_REFRESH_AND_PERSIST,
                                    !.si_interval = 60])
               ELSE IF val = "dirSync"
               THEN got([si0 EXCEPT !.si_ctype = MSAD_DIRSYNC])
               ELSE err
          [] key = "interval" ->
               IF si0.si_ctype = LDAP_SYNC_REFRESH_AND_PERSIST
               THEN got([si0 EXCEPT !.si_interval = 0])
               ELSE IF lutil_atoi(val).rc # 0 THEN err
               ELSE got([si0 EXCEPT !.si_interval = lutil_atoi(val).v])
          [] OTHER -> err

RECURSIVE parse_syncrepl_args(_, _, _)
parse_syncrepl_args(si0, argv, i) ==
    IF i > Len(argv) THEN [rc |-> 0, si |-> si0]
    ELSE LET a == parse_syncrepl_arg(si0, argv[i])
         IN IF a.rc # 0 THEN a ELSE parse_syncrepl_args(a.si, argv, i + 1)

parse_syncrepl_line(si0, argv) ==
    LET a == parse_syncrepl_args(si0, argv, 1)
    IN IF a.rc # 0 THEN a
       ELSE IF ~(GOT_REQUIRED \subseteq a.si.si_got) THEN [rc |-> -1, si |-> a.si]
       ELSE IF ~be_issubordinate(a.si.si_base) THEN [rc |-> -1, si |-> a.si]
       ELSE IF a.si.si_retryinterval = NULL THEN parse_syncrepl_retry(a.si, "undefined")
       ELSE a

\* the new replica goes in front of the last one of the list
add_syncrepl(conf, argv) ==
    LET a == parse_syncrepl_line(CallocSi, argv)
    IN IF a.rc # 0 THEN [rc |-> 1, conf |-> conf]
       ELSE [rc |-> 0,
             conf |-> IF Len(conf) = 0 THEN <<a.si>>
                      ELSE SubSeq(conf, 1, Len(conf) - 1) \o <<a.si>>
                           \o <<conf[Len(conf)]>>]

(* ---- referral chaining (back-ldap/chain.c) ---- *)
LDAP_REFERRAL == 10
LDAP_URL_SUCCESS == 0
LDAP_URL_ERR_BADSCHEME == 3
SLAP_CB_CONTINUE == 32768
MaxRef == 3

\* the URIs a referral can carry; the last one is not an LDAP URL
ChainURIs == {"ldap://h1/dc=a", "ldap://h2/dc=a", "x://h3"}

\* ldap_url_parse_ext: [rc, srv]
ldap_url_parse_ext(uri) ==
    CASE uri = "ldap://h1/dc=a" ->
            [rc |-> LDAP_URL_SUCCESS,
             srv |-> [lud_scheme |-> "ldap", lud_host |-> "h1", lud_dn |-> "dc=a"]]
      [] uri = "ldap://h2/dc=a" ->
            [rc |-> LDAP_URL_SUCCESS,
             srv |-> [lud_scheme |-> "ldap", lud_host |-> "h2", lud_dn |-> "dc=a"]]
      [] OTHER -> [rc |-> LDAP_URL_ERR_BADSCHEME, srv |-> NULL]

\* ldap_url_desc2str: the URL as the words scheme, host, DN
ldap_url_desc2str(srv) == <<srv.lud_scheme, srv.lud_host, srv.lud_dn>>

\* what the remote operation of back-ldap can come back with: [rc, sr_err]
BackOuts ==
    {[rc |-> e, sr_err |-> e] : e \in {LDAP_SUCCESS, LDAP_NO_SUCH_OBJECT, LDAP_OTHER}}

\* the operation with its referral: tag, the result code it was answered
\* with, the URIs of the referral, the URI the overlay is configured with;
\* followed keeps every URL an operation was sent to
NoChain == [pc |-> "none", tag |-> "", sr_err |-> 0, ref |-> <<>>, lip_url |-> NULL,
            rc |-> 0, followed |-> <<>>]

\* the loop of ldap_chain_op over the URIs from the i-th on; outs[i] is what
\* the operation sent to the i-th URI comes back with
RECURSIVE chain_loop(_, _, _, _)
chain_loop(c, i, rc, outs) ==
    IF i > Len(c.ref) THEN [c EXCEPT !.rc = rc]
    ELSE LET p == ldap_url_parse_ext(c.ref[i])
         IN IF p.rc # LDAP_URL_SUCCESS THEN chain_loop(c, i + 1, LDAP_OTHER, outs)
            ELSE LET url == ldap_url_desc2str([p.srv EXCEPT !.lud_dn = ""])
                     o == outs[i]
                     c1 == [c EXCEPT !.followed = Append(@, url), !.sr_err = o.sr_err]
                 IN IF o.rc = LDAP_SUCCESS /\ o.sr_err = LDAP_SUCCESS
                    THEN [c1 EXCEPT !.rc = o.rc]
                    ELSE chain_loop(c1, i + 1, o.rc, outs)

ldap_chain_op(c, outs) ==
    IF c.lip_url # NULL
    THEN [c EXCEPT !.followed = <<c.lip_url>>, !.sr_err = outs[1].sr_err, !.rc = outs[1].rc]
    ELSE chain_loop(c, 1, LDAP_OTHER, outs)

\* the operations that ldap_chain_response hands to ldap_chain_op
ChainTags == {"bind", "add", "delete", "modrdn", "modify", "compare", "search"}

\* ldap_chain_response for a result (not a search reference): rc is what
\* ldap_chain_op returned
ldap_chain_response(c, outs) ==
    IF c.sr_err # LDAP_REFERRAL THEN [c EXCEPT !.pc = "done", !.rc = SLAP_CB_CONTINUE]
    ELSE IF c.tag \in ChainTags THEN [ldap_chain_op(c, outs) EXCEPT !.pc = "done"]
    ELSE [c EXCEPT !.pc = "done", !.rc = SLAP_CB_CONTINUE]

(* ---- initial states: replicas as add_syncrepl leaves them ---- *)
UUIDs == {"u1", "u2"}

NewSi(ctype, syncdata, retrynum, interval) ==
    [si_ctype |-> ctype, si_type |-> ctype, si_syncdata |-> syncdata,
     si_logstate |-> SYNCLOG_LOGGING, si_ld |-> FALSE, si_conn |-> FALSE, si_msgid |-> 0,
     si_paused |-> 0, si_refreshDone |-> 0, si_refreshPresent |-> 0, si_refreshDelete |-> 0,
     si_retrynum |-> retrynum, si_retrynum_init |-> retrynum,
     si_retryinterval |-> [i \in 1..Len(retrynum) |-> i],
     si_interval |-> interval, si_re |-> "task", si_presentlist |-> {},
     si_syncCookie |-> <<>>, si_cookieAge |-> 0, si_too_old |-> 0, si_lastchange |-> 0,
     si_dirSyncCookie |-> "", ldctl_value |-> ""]

NewCs == [cs_refreshing |-> NULL, cs_pmutex |-> NULL, cs_vals |-> <<>>, cs_pvals |-> <<>>,
          cs_age |-> 0, cs_updating |-> 0]

NewRq(interval) == [state |-> "sched", interval |-> interval, wait |-> interval, nremoved |-> 0]

\* a replica whose task was never inserted in the runqueue
NoRq == [state |-> "removed", interval |-> 0, wait |-> 0, nremoved |-> 0]

NewBe(entries, contextCSN, ov, mp) ==
    [entries |-> entries, contextCSN |-> contextCSN, ov |-> ov, multiprovider |-> mp,
     written |-> {}, rewritten |-> {}, hi |-> [x \in Sids |-> 0],
     named |-> [r \in Replicas |-> {}], lost |-> {}, lastchange |-> 0,
     dit |-> [dn \in DNs |-> "none"],
     attrs |-> [d \in ModAttrs |-> {}], reqlog |-> <<>>, todo |-> {}, hist |-> <<>>,
     orig |-> [d \in ModAttrs |-> {}], dirSyncCookie |-> "", conf |-> <<>>,
     skipped |-> {}, lockorder |-> {}, unlisted |-> {}, rx_mods |-> <<>>,
     chain |-> NoChain]

MaxRetry == 1
RetryFinite == <<MaxRetry, RETRYNUM_TAIL>>
RetryForever == <<MaxRetry, RETRYNUM_FOREVER, RETRYNUM_TAIL>>

InitWith(si0, rq0, be0) ==
    /\ si = si0
    /\ cs = NewCs
    /\ rq = rq0
    /\ th = [r \in Replicas |-> IdleTh]
    /\ be = be0
    /\ slapd_shutdown = FALSE
    /\ fault = FALSE

EmptyBe == NewBe([u \in UUIDs |-> NoEntry], <<>>, NULL, FALSE)

(* ---- the scheduler specification: two replicas of one database, the    *)
(* third configured but off the runqueue; the provider sends no cookies    *)
SchedMsgs ==
    {ResultMsg(e, <<>>, 0) : e \in {LDAP_SUCCESS, LDAP_SYNC_REFRESH_REQUIRED}}
    \cup {InterMsg("REFRESH_DELETE", 1, <<>>), TimeoutMsg, NetErrMsg, BadEntryMsg}
SchedNets == {NetOk, [NetOk EXCEPT !.connect_rc = LDAP_SERVER_DOWN]}
SchedOuts == {LDAP_SUCCESS}

SchedSi ==
    [r \in Replicas |->
        IF r = "r1" THEN NewSi(LDAP_SYNC_REFRESH_AND_PERSIST, SYNCDATA_DEFAULT, RetryFinite, 7)
        ELSE IF r = "r2" THEN NewSi(LDAP_SYNC_REFRESH_ONLY, SYNCDATA_DEFAULT, RetryFinite, 8)
        ELSE [NewSi(LDAP_SYNC_REFRESH_ONLY, SYNCDATA_DEFAULT, RetryFinite, 9)
                 EXCEPT !.si_re = NULL]]

Init ==
    InitWith(SchedSi, [r \in Replicas |-> IF r = "r3" THEN NoRq ELSE NewRq(SchedSi[r].si_interval)],
             EmptyBe)

Step(r) ==
    \/ RunTask(r)
    \/ ConnEvent(r)
    \/ Establish(r, SchedNets)
    \/ Rep2(r)
    \/ Recv(r, SchedMsgs, SchedOuts, {FALSE})
    \/ Reload(r, SchedNets)

Next == (\E r \in Replicas : Step(r)) \/ Shutdown

Spec == Init /\ [][Next]_vars

(* ---- the cookie specification: two replicas in their sessions; the     *)
(* database starts with a contextCSN of sid 1; the provider of r1 sends    *)
(* the changes of sid 2 with their cookies, the provider of r2 is behind   *)
(* and sends the first change without a cookie and its cookie at the end   *)
(* of the refresh                                                          *)
CookieMsgs(r) ==
    IF r = "r1"
    THEN {EntryMsg(LDAP_SYNC_ADD, "u1", Csn(2, 1), <<Csn(2, 1)>>),
          EntryMsg(LDAP_SYNC_DELETE, "u1", NoCsn, <<Csn(2, 2)>>),
          EntryMsg(LDAP_SYNC_ADD, "u2", Csn(2, 3), <<Csn(2, 3)>>),
          InterMsg("REFRESH_DELETE", 1, <<>>)}
    ELSE {EntryMsg(LDAP_SYNC_ADD, "u1", Csn(2, 1), <<>>),
          InterMsg("REFRESH_DELETE", 1, <<Csn(2, 1)>>)}
CookieNets == {NetOk}
CookieOuts == {LDAP_SUCCESS, LDAP_NO_SUCH_OBJECT}
CookieMods == {LDAP_SUCCESS, LDAP_OTHER}

InitCookie ==
    InitWith(SchedSi, [r \in Replicas |-> IF r = "r3" THEN NoRq ELSE NewRq(SchedSi[r].si_interval)],
             NewBe([u \in UUIDs |-> NoEntry], <<Csn(1, 1)>>, NULL, FALSE))

StepCookie(r) ==
    \/ RunTask(r)
    \/ Establish(r, CookieNets)
    \/ Rep2(r)
    \/ Recv(r, CookieMsgs(r), CookieOuts, {FALSE})
    \/ Pend(r)
    \/ Apply(r, CookieOuts, {FALSE})
    \/ Commit(r, {FALSE})
    \/ Commit2(r, CookieMods, {FALSE})
    \/ Reload(r, CookieNets)

NextCookie == \E r \in Replicas : StepCookie(r)

SpecCookie == InitCookie /\ [][NextCookie]_vars

(* ---- the gate specification: three replicas of one database contend    *)
(* for the refresh gate: r1 is refreshAndPersist and stays in its persist   *)
(* phase once its refresh is done, r2 and r3 are refreshOnly; every provider *)
(* that is reached completes the refresh, the provider of r2 may be down;    *)
(* the runqueue and the thread pool run every task that is due               *)
LiveMsgs(r) ==
    IF r = "r1" THEN {InterMsg("REFRESH_DELETE", 1, <<>>)}
    ELSE IF r = "r2" THEN {ResultMsg(LDAP_SUCCESS, <<>>, 0), NetErrMsg}
    ELSE {ResultMsg(LDAP_SUCCESS, <<>>, 0)}
LiveNets(r) == IF r = "r2" THEN SchedNets ELSE {NetOk}

LiveSi ==
    [r \in Replicas |->
        IF r = "r1" THEN NewSi(LDAP_SYNC_REFRESH_AND_PERSIST, SYNCDATA_DEFAULT, RetryFinite, 7)
        ELSE NewSi(LDAP_SYNC_REFRESH_ONLY, SYNCDATA_DEFAULT, RetryFinite,
                   IF r = "r2" THEN 8 ELSE 9)]

InitLive ==
    InitWith(LiveSi, [r \in Replicas |-> NewRq(LiveSi[r].si_interval)], EmptyBe)

StepLive(r) ==
    \/ RunTask(r)
    \/ Establish(r, LiveNets(r))
    \/ Rep2(r)
    \/ Recv(r, LiveMsgs(r), SchedOuts, {FALSE})
    \/ Reload(r, LiveNets(r))

NextLive == \E r \in Replicas : StepLive(r)

SpecLive ==
    InitLive /\ [][NextLive]_vars /\ \A r \in Replicas : WF_vars(StepLive(r))

(* ---- the refresh specification: the database holds u1 and u2 from an   *)
(* earlier refresh; the provider of r1 answers in present mode: it names    *)
(* the entries that still exist or sends them changed, may announce a new   *)
(* cookie in between, and ends the present phase with the final cookie;     *)
(* r2 polls the same database                                               *)
(* and contends for the gate; the thread pool may be pausing after any      *)
(* message                                                                  *)
RefreshMsgs(r) ==
    IF r = "r1"
    THEN {EntryMsg(LDAP_SYNC_PRESENT, "u1", NoCsn, <<>>),
          EntryMsg(LDAP_SYNC_ADD, "u1", Csn(1, 2), <<Csn(1, 2)>>),
          IdSetMsg({"u2"}, 0, <<>>),
          InterMsg("NEW_COOKIE", 0, <<Csn(1, 2)>>),
          InterMsg("REFRESH_PRESENT", 1, <<Csn(1, 3)>>)}
    ELSE {ResultMsg(LDAP_SUCCESS, <<>>, 0)}
RefreshPauses == {FALSE, TRUE}

InitRefresh ==
    InitWith(SchedSi, [r \in Replicas |-> IF r = "r3" THEN NoRq ELSE NewRq(SchedSi[r].si_interval)],
             NewBe([u \in UUIDs |-> [exists |-> TRUE, csn |-> Csn(1, 1)]], <<Csn(1, 1)>>, NULL, FALSE))

StepRefresh(r) ==
    \/ RunTask(r)
    \/ Establish(r, CookieNets)
    \/ Rep2(r)
    \/ Recv(r, RefreshMsgs(r), SchedOuts, RefreshPauses)
    \/ Pend(r)
    \/ Apply(r, SchedOuts, RefreshPauses)
    \/ Commit(r, RefreshPauses)
    \/ Commit2(r, SchedOuts, RefreshPauses)
    \/ Reload(r, CookieNets)

NextRefresh == \E r \in Replicas : StepRefresh(r)

SpecRefresh == InitRefresh /\ [][NextRefresh]_vars

(* ---- the shutdown specification: r1 and r2 replicate into one database; *)
(* the provider of r1 sends a change with its cookie and ends the refresh,  *)
(* or stays silent; r2 polls; slapd may be told to shut down at any moment, *)
(* also while a change is being applied                                     *)
StopMsgs(r) ==
    IF r = "r1"
    THEN {EntryMsg(LDAP_SYNC_ADD, "u1", Csn(2, 1), <<Csn(2, 1)>>),
          InterMsg("REFRESH_DELETE", 1, <<>>), TimeoutMsg}
    ELSE {ResultMsg(LDAP_SUCCESS, <<>>, 0)}

StepStop(r) ==
    \/ RunTask(r)
    \/ ConnEvent(r)
    \/ Establish(r, CookieNets)
    \/ Rep2(r)
    \/ Recv(r, StopMsgs(r), SchedOuts, {FALSE})
    \/ Pend(r)
    \/ Apply(r, SchedOuts, {FALSE})
    \/ Commit(r, {FALSE})
    \/ Commit2(r, SchedOuts, {FALSE})
    \/ Reload(r, CookieNets)

NextStop == (\E r \in Replicas : StepStop(r)) \/ Shutdown

SpecStop == InitCookie /\ [][NextStop]_vars

(* ---- the freshness specification: r1 and r2 receive the same changes    *)
(* of sid 2 from two providers, each change with its cookie; an add may    *)
(* find the parent missing or the DN taken, and the write of the contextCSN *)
(* may fail                                                                 *)
FreshMsgs(r) ==
    IF r = "r1"
    THEN {EntryMsg(LDAP_SYNC_ADD, "u1", Csn(2, 1), <<Csn(2, 1)>>),
          EntryMsg(LDAP_SYNC_ADD, "u2", Csn(2, 2), <<Csn(2, 2)>>),
          InterMsg("REFRESH_DELETE", 1, <<>>)}
    ELSE {EntryMsg(LDAP_SYNC_ADD, "u1", Csn(2, 1), <<Csn(2, 1)>>),
          InterMsg("REFRESH_DELETE", 1, <<>>)}
\* be_add may find the parent missing or the DN taken
FreshOuts == {LDAP_SUCCESS, LDAP_NO_SUCH_OBJECT, LDAP_ALREADY_EXISTS}

StepFresh(r) ==
    \/ RunTask(r)
    \/ ConnEvent(r)
    \/ Establish(r, CookieNets)
    \/ Rep2(r)
    \/ Recv(r, FreshMsgs(r), SchedOuts, {FALSE})
    \/ Pend(r)
    \/ Apply(r, FreshOuts, {FALSE})
    \/ Commit(r, {FALSE})
    \/ Commit2(r, CookieMods, {FALSE})
    \/ Reload(r, CookieNets)

NextFresh == \E r \in Replicas : StepFresh(r)

SpecFresh == InitCookie /\ [][NextFresh]_vars

(* ---- properties of the scheduler specification ---- *)

\* C3: at any instant at most one replica holds the refresh gate: a replica
\* whose session is in its refresh phase is the replica recorded as the holder
\* of the gate, so no two replicas are in a refresh phase together.
C3_GateExclusive ==
    \A r \in Replicas : th[r].refreshing => cs.cs_refreshing = r

\* one replica refreshes while another one found the gate busy and is parked
C3_Witness ==
    \E r1, r2 \in Replicas :
        /\ r1 # r2 /\ th[r1].refreshing /\ cs.cs_refreshing = r1
        /\ si[r2].si_paused = 1 /\ rq[r2].state = "stopped"

Exhausted(num) == num[retry_slot(num, 1)] = RETRYNUM_TAIL

FailureCodes == {SYNC_ERROR, LDAP_SERVER_DOWN, LDAP_PROTOCOL_ERROR, LDAP_OTHER}

\* C6: with a finite retry schedule, a session that ends with a failure is
\* re-scheduled after the interval of the slot in use with that slot's count
\* decremented while a count is left; a count is only ever consumed together
\* with a re-schedule; once the counts are used up the task is removed; a task
\* is removed at most once and a removed task is never scheduled again.
C6_Step(r) ==
    LET num == si[r].si_retrynum
        i == retry_slot(num, 1)
    IN /\ rq[r].state = "removed" => rq'[r].state = "removed"
       /\ rq'[r].nremoved <= 1
       /\ (th[r].pc = "post" /\ th[r].rc \in FailureCodes /\ th'[r].pc = "idle") =>
             IF Exhausted(num)
             THEN rq'[r].state = "removed" /\ rq'[r].nremoved = rq[r].nremoved + 1
             ELSE /\ si'[r].si_retrynum = [num EXCEPT ![i] = num[i] - 1]
                  /\ rq'[r].state = "sched" /\ rq'[r].wait = si[r].si_retryinterval[i]
       /\ (si'[r].si_retrynum # num /\ si'[r].si_retrynum # si[r].si_retrynum_init) =>
             /\ si'[r].si_retrynum = [num EXCEPT ![i] = num[i] - 1]
             /\ rq'[r].state = "sched" /\ rq'[r].wait = si[r].si_retryinterval[i]

C6_RetrySchedule == [][\A r \in Replicas : C6_Step(r)]_vars

\* the schedule of a replica was used up and its task has been removed
C6_Witness ==
    \E r \in Replicas :
        /\ rq[r].nremoved = 1 /\ rq[r].state = "removed"
        /\ si[r].si_re = NULL /\ Exhausted(si[r].si_retrynum) /\ ~slapd_shutdown

\* C7: when a replica completes a refresh (its refresh phase reaches
\* refresh-done, or its refresh-only poll ends and is re-polled) every count
\* of its retry schedule is back at its configured initial value.
C7_Step(r) ==
    /\ (th[r].refreshing /\ si[r].si_refreshDone = 0 /\ si'[r].si_refreshDone = 1)
          => si'[r].si_retrynum = si[r].si_retrynum_init
    /\ (th[r].pc = "post" /\ th[r].rc = SYNC_REPOLL /\ th'[r].pc = "idle")
          => si'[r].si_retrynum = si[r].si_retrynum_init

C7_RetryReinit == [][\A r \in Replicas : C7_Step(r)]_vars

\* a replica that was re-scheduled by a retry has since completed a refresh
C7_Witness ==
    \E r \in Replicas :
        /\ si[r].si_refreshDone = 1 /\ th[r].pc = "loop"
        /\ rq[r].interval = si[r].si_retryinterval[1]
        /\ si[r].si_retrynum = si[r].si_retrynum_init

\* C10: a replica that finds the refresh gate busy yields: in that step no
\* retry count is consumed, its task is not removed and its connection stays
\* open.
C10_Step(r) ==
    (si[r].si_paused = 0 /\ si'[r].si_paused = 1) =>
        /\ si'[r].si_retrynum = si[r].si_retrynum
        /\ rq'[r].state # "removed"
        /\ si'[r].si_ld

C10_BusyIsYield == [][\A r \in Replicas : C10_Step(r)]_vars

\* the messages that are protocol errors for r: a search entry whose sync
\* state control is missing, doubled or malformed or whose UUID is not 16
\* octets long, and a refresh-done after the refresh was done
ProtoErrs(r) ==
    {BadEntryMsg} \cup
    (IF si[r].si_refreshDone # 0
     THEN {InterMsg(tag, 1, <<>>) : tag \in {"REFRESH_DELETE", "REFRESH_PRESENT"}}
     ELSE {})
\* C13: a protocol error on a received message: the message is not applied,
\* do_syncrep2 ends with a failure code and the connection closed (and the
\* gate released), and do_syncrepl re-schedules the task after the interval
\* of the next retry entry with its count decremented (the task is removed
\* when no retry entry is left)
C13_ProtocolError ==
    \A r \in Replicas :
        th[r].pc = "loop" /\ si[r].si_syncdata # SYNCDATA_CHANGELOG =>
            \A msg \in ProtoErrs(r) :
               \A s2 \in {IF msg.type = "entry"
                          THEN recv_entry(St, r, msg, LDAP_SUCCESS, FALSE)
                          ELSE recv_intermediate(St, r, msg, FALSE, FALSE)} :
                  /\ s2.be.entries = be.entries /\ s2.be.contextCSN = be.contextCSN
                  /\ s2.be.written = be.written
                  /\ s2.cs.cs_vals = cs.cs_vals /\ s2.cs.cs_pvals = cs.cs_pvals
                  /\ s2.th[r].pc = "post"
                  /\ s2.th[r].rc \in {LDAP_SERVER_DOWN, LDAP_PROTOCOL_ERROR}
                  /\ ~s2.si[r].si_ld /\ s2.cs.cs_refreshing # r /\ s2.cs.cs_pmutex # r
                  /\ \A s3 \in {do_syncrepl_reload(s2, r, NetOk)} :
                        LET num == s2.si[r].si_retrynum
                            i == retry_slot(num, 1)
                        IN /\ s3.th[r].pc = "idle" /\ ~s3.si[r].si_ld /\ ~s3.si[r].si_conn
                           /\ IF Exhausted(num)
                              THEN s3.rq[r].state = "removed" /\ s3.si[r].si_re = NULL
                              ELSE /\ s3.rq[r].state = "sched"
                                   /\ s3.rq[r].wait = si[r].si_retryinterval[i]
                                   /\ s3.si[r].si_retrynum =
                                        [num EXCEPT ![i] = IF @ > 0 THEN @ - 1 ELSE @]
\* r1 was sent a second refresh-done in its persist phase: its session is
\* closed with a protocol error and the retry is about to be scheduled
C13_Witness ==
    /\ th["r1"].pc = "post" /\ th["r1"].rc = LDAP_PROTOCOL_ERROR
    /\ si["r1"].si_refreshDone # 0 /\ ~si["r1"].si_ld
    /\ ~Exhausted(si["r1"].si_retrynum)

(* ---- the delta-sync specification: r1 replays the access log of its    *)
(* provider, r2 the retro change log of a DSEE provider; a logged change   *)
(* may fail to apply, and either provider may ask for a refresh            *)
DeltaSi ==
    [r \in Replicas |->
        IF r = "r1" THEN NewSi(LDAP_SYNC_REFRESH_AND_PERSIST, SYNCDATA_ACCESSLOG, RetryFinite, 7)
        ELSE IF r = "r2" THEN NewSi(LDAP_SYNC_REFRESH_ONLY, SYNCDATA_CHANGELOG, RetryFinite, 8)
        ELSE [NewSi(LDAP_SYNC_REFRESH_ONLY, SYNCDATA_DEFAULT, RetryFinite, 9)
                 EXCEPT !.si_re = NULL]]
DeltaMsgs(r) ==
    IF r = "r1"
    THEN {EntryMsg(LDAP_SYNC_ADD, "u1", Csn(1, 2), <<Csn(1, 2)>>),
          EntryMsg(LDAP_SYNC_MODIFY, "u1", Csn(1, 2), <<>>),
          ResultMsg(LDAP_SUCCESS, <<>>, 0), ResultMsg(LDAP_SUCCESS, <<Csn(1, 2)>>, 1),
          ResultMsg(LDAP_SYNC_REFRESH_REQUIRED, <<>>, 0)}
    ELSE {EntryMsg(LDAP_SYNC_ADD, "u2", NoCsn, <<>>),
          ResultMsg(LDAP_SUCCESS, <<>>, 0), ResultMsg(LDAP_SYNC_REFRESH_REQUIRED, <<>>, 0)}
\* the replay of a logged change may find the entry missing or fail otherwise
DeltaOuts == {LDAP_SUCCESS, LDAP_NO_SUCH_OBJECT, LDAP_TYPE_OR_VALUE_EXISTS, LDAP_OTHER}

\* the context entry holds a contextCSN and the number of the last change
\* replayed from the change log
InitDelta ==
    InitWith(DeltaSi, [r \in Replicas |-> IF r = "r3" THEN NoRq ELSE NewRq(DeltaSi[r].si_interval)],
             [NewBe([u \in UUIDs |-> NoEntry], <<Csn(1, 1)>>, NULL, FALSE)
                 EXCEPT !.lastchange = 1])

StepDelta(r) ==
    \/ RunTask(r)
    \/ Establish(r, CookieNets)
    \/ Rep2(r)
    \/ Recv(r, DeltaMsgs(r), DeltaOuts, {FALSE})
    \/ Pend(r)
    \/ Apply(r, DeltaOuts, {FALSE})
    \/ Commit(r, {FALSE})
    \/ Commit2(r, CookieMods, {FALSE})
    \/ Reload(r, CookieNets)

NextDelta == \E r \in Replicas : StepDelta(r)

SpecDelta == InitDelta /\ [][NextDelta]_vars

(* ---- the tree specification: entries are added and deleted under an   *)
(* empty suffix, by messages and by the non-present reconciliation         *)
NextTree == \E dn \in DNs : TreeAdd(dn) \/ TreeDelete(dn) \/ TreeNonPresent(dn)

SpecTree == Init /\ [][NextTree]_vars

(* ---- the provider specification: the database holds the contextCSN of  *)
(* sids 1 and 3, stored in no particular order; it either carries a local   *)
(* provider overlay, which publishes the vector sorted by sid and advances  *)
(* sid 1 on local writes, or none; the provider of r1 sends a change of     *)
(* sid 2, the provider of r2 a change of sid 3, each with its cookie        *)
ProvMsgs(r) ==
    IF r = "r1"
    THEN {EntryMsg(LDAP_SYNC_ADD, "u1", Csn(2, 1), <<Csn(2, 1)>>),
          InterMsg("REFRESH_DELETE", 1, <<>>)}
    ELSE {EntryMsg(LDAP_SYNC_ADD, "u2", Csn(3, 2), <<Csn(3, 2)>>),
          ResultMsg(LDAP_SUCCESS, <<Csn(2, 1), Csn(3, 2)>>, 1)}
ProvOvs == {NULL, <<Csn(1, 1), Csn(3, 1)>>}

InitProv ==
    \E ov \in ProvOvs :
        InitWith(SchedSi, [r \in Replicas |-> IF r = "r3" THEN NoRq ELSE NewRq(SchedSi[r].si_interval)],
                 NewBe([u \in UUIDs |-> NoEntry], <<Csn(3, 1), Csn(1, 1)>>, ov, ov # NULL))

\* a local write through the overlay advances the CSN of the server's own sid
LocalWrite ==
    /\ Alive /\ be.ov # NULL /\ Held(be.ov, 1) < MaxCount
    /\ be' = [be EXCEPT !.ov = syncprov_ctxcsn(be.ov, <<Csn(1, Held(be.ov, 1) + 1)>>)]
    /\ UNCHANGED <<si, cs, rq, th, fault, slapd_shutdown>>

StepProv(r) ==
    \/ RunTask(r)
    \/ Establish(r, CookieNets)
    \/ Rep2(r)
    \/ Recv(r, ProvMsgs(r), CookieOuts, {FALSE})
    \/ Pend(r)
    \/ Apply(r, CookieOuts, {FALSE})
    \/ Commit(r, {FALSE})
    \/ Commit2(r, CookieMods, {FALSE})
    \/ Reload(r, CookieNets)

NextProv == (\E r \in Replicas : StepProv(r)) \/ LocalWrite

SpecProv == InitProv /\ [][NextProv]_vars

(* ---- the merge specification: the committed vector and the cookie of   *)
(* each replica are any two vectors sorted by sid (a CSN that does not      *)
(* parse has sid -1 and sorts first); the committed vector has changed      *)
(* since the replicas looked, and each replica reconciles its cookie        *)
MergeSids == <<-1, 1, 2>>
RECURSIVE VectorsFrom(_)
VectorsFrom(i) ==
    IF i > Len(MergeSids) THEN {<<>>}
    ELSE LET rest == VectorsFrom(i + 1)
         IN rest \cup {<<Csn(MergeSids[i], t)>> \o v : t \in 1..MaxCount, v \in rest}
Vectors == VectorsFrom(1)

InitMerge ==
    \E a \in Vectors, b \in Vectors \ {<<>>} :
        /\ si = [SchedSi EXCEPT !["r1"].si_syncCookie = a, !["r2"].si_syncCookie = b]
        /\ cs = [NewCs EXCEPT !.cs_vals = b, !.cs_age = 1]
        /\ rq = [r \in Replicas |-> NoRq]
        /\ th = [r \in Replicas |-> IdleTh]
        /\ be = EmptyBe
        /\ slapd_shutdown = FALSE
        /\ fault = FALSE

Reconcile(r) ==
    /\ si[r].si_cookieAge # cs.cs_age
    /\ Install(Ret(check_syncprov(St, r), 0))
    /\ UNCHANGED slapd_shutdown

NextMerge == \E r \in Replicas : Reconcile(r)

SpecMerge == InitMerge /\ [][NextMerge]_vars

(* ---- the resolver specification: a multi-provider delta-sync database; *)
(* the entry u1 went through a history of modifies on the providers, the    *)
(* first one made on the provider of r1 and the later ones on the provider  *)
(* of r2; each replica delivers the changes of its provider in order, but   *)
(* r2 may be ahead of r1                                                    *)
MaxHist == 3
ModEntries == {e \in [ModAttrs -> SUBSET ModVals] :
                  \A d \in ModAttrs : is_at_single_value(d) => Cardinality(e[d]) <= 1}
\* the modifies a client can send: one mod of one attribute
ClientMods ==
    {m \in {Mod(op, d, vs) : op \in {LDAP_MOD_ADD, LDAP_MOD_DELETE, LDAP_MOD_REPLACE},
                             d \in ModAttrs, vs \in SUBSET ModVals} :
        m.sml_op = LDAP_MOD_ADD => m.sml_values # {}}
\* the histories of n modifies that a provider accepts from the entry e on
RECURSIVE Histories(_, _)
Histories(e, n) ==
    IF n = 0 THEN {<<>>}
    ELSE UNION {{<<m>> \o h : h \in Histories(bi_op_modify(e, <<m>>).e, n - 1)} :
                   m \in {m \in ClientMods : bi_op_modify(e, <<m>>).rc = LDAP_SUCCESS}}
\* the entry after the history h in order
RECURSIVE InOrder(_, _)
InOrder(e, h) ==
    IF Len(h) = 0 THEN e ELSE InOrder(bi_op_modify(e, <<h[1]>>).e, Tail(h))

InitResolve ==
    \E e \in ModEntries, n \in 2..MaxHist :
      \E h \in Histories(e, n) :
        /\ InitWith(DeltaSi, [r \in Replicas |-> NoRq],
                    [NewBe([u \in UUIDs |-> IF u = "u1" THEN [exists |-> TRUE, csn |-> Csn(1, 0)]
                                            ELSE NoEntry], <<>>, NULL, TRUE)
                        EXCEPT !.attrs = e, !.orig = e, !.todo = 1..n,
                               !.hist = [i \in 1..n |->
                                            [csn |-> Csn(IF i = 1 THEN 1 ELSE 2, i),
                                             mods |-> <<h[i]>>,
                                             reqMod |-> reqMod(<<h[i]>>)]]])

\* the replica applies the next change of its provider; a change that
\* cannot be applied ends delta-sync for this history
OpModify(r) ==
    /\ Alive
    /\ \E i \in be.todo :
         /\ (r = "r1" /\ i = 1) \/ (r = "r2" /\ i > 1 /\ \A j \in be.todo : j > 1 => i <= j)
         /\ \E res \in {syncrepl_op_modify(be.attrs, be.entries["u1"].csn, be.reqlog,
                                           cs.cs_vals, be.hist[i])} :
              Install([St EXCEPT !.be.attrs = res.attrs,
                                 !.be.entries["u1"].csn = res.csn,
                                 !.be.reqlog = res.log,
                                 !.be.todo = IF res.rc = LDAP_SUCCESS THEN be.todo \ {i} ELSE {},
                                 !.th[r].rc = res.rc])
    /\ UNCHANGED slapd_shutdown

NextResolve == \E r \in Replicas : OpModify(r)

SpecResolve == InitResolve /\ [][NextResolve]_vars

(* ---- the pair specification: a provider has accepted an older and then *)
(* a newer modify of the entry u1, of one mod each; the replica has applied *)
(* the newer one and logged it, and the older one has just come in: the     *)
(* resolver rewrites its list against the record of the newer one           *)
InitPair ==
    \E e \in ModEntries :
      \E h \in Histories(e, 2) :
        LET chg(i) == [csn |-> Csn(i, i), mods |-> <<h[i]>>, reqMod |-> reqMod(<<h[i]>>)]
            newer == syncrepl_op_modify(e, Csn(1, 0), <<>>, <<>>, chg(2))
        IN /\ newer.rc = LDAP_SUCCESS
           /\ InitWith(DeltaSi, [r \in Replicas |-> NoRq],
                [NewBe([u \in UUIDs |-> IF u = "u1" THEN [exists |-> TRUE, csn |-> newer.csn]
                                        ELSE NoEntry], <<>>, NULL, TRUE)
                    EXCEPT !.attrs = newer.attrs, !.orig = e, !.todo = {1},
                           !.hist = <<chg(1), chg(2)>>, !.reqlog = newer.log,
                           !.rx_mods = mods_dup(syncrepl_accesslog_mods(chg(1).reqMod), -1).new])

\* the callback of the log search for the record of the newer modify
ResolveCb ==
    /\ Alive /\ be.todo = {1}
    /\ be' = [be EXCEPT !.todo = {},
                        !.rx_mods = syncrepl_resolve_cb(be.rx_mods,
                                        syncrepl_accesslog_mods(be.reqlog[1].reqMod), be.attrs)]
    /\ UNCHANGED <<si, cs, rq, th, slapd_shutdown, fault>>

NextPair == ResolveCb

SpecPair == InitPair /\ [][NextPair]_vars

(* ---- the chaining specification: an operation of the chain overlay has *)
(* been answered, with a referral of one to MaxRef URIs or without one      *)
RECURSIVE Referrals(_)
Referrals(n) ==
    IF n = 0 THEN {<<>>}
    ELSE {<<u>> \o t : u \in ChainURIs, t \in Referrals(n - 1)}

InitChain ==
    \E tag \in ChainTags \cup {"unbind"}, n \in 1..MaxRef,
       lip \in {NULL, ldap_url_desc2str([lud_scheme |-> "ldap", lud_host |-> "h0", lud_dn |-> ""])},
       err \in {LDAP_REFERRAL, LDAP_NO_SUCH_OBJECT} :
      \E ref \in Referrals(n) :
        InitWith(DeltaSi, [r \in Replicas |-> NoRq],
                 [EmptyBe EXCEPT !.chain = [NoChain EXCEPT !.pc = "result", !.tag = tag,
                                                           !.sr_err = err, !.ref = ref,
                                                           !.lip_url = lip]])

ChainResponse ==
    /\ Alive /\ be.chain.pc = "result"
    /\ \E outs \in [1..Len(be.chain.ref) -> BackOuts] :
          be' = [be EXCEPT !.chain = ldap_chain_response(be.chain, outs)]
    /\ UNCHANGED <<si, cs, rq, th, slapd_shutdown, fault>>

NextChain == ChainResponse

SpecChain == InitChain /\ [][NextChain]_vars

(* ---- the DirSync specification: r1 polls an Active Directory server,    *)
(* r2 is a refreshOnly replica of the same database; the context entry may  *)
(* hold a cookie of an earlier run; the entries of a poll are not delivered *)
DirSyncCookies == {"K1", "K2"}
DirSyncMsgs(r) ==
    IF r = "r1"
    THEN {DirSyncMsg(LDAP_SUCCESS, k, f) : k \in DirSyncCookies \cup {"none"}, f \in BOOLEAN}
         \cup {TimeoutMsg}
    ELSE {ResultMsg(LDAP_SUCCESS, <<>>, 0), TimeoutMsg}
DirSyncOuts == {LDAP_SUCCESS, LDAP_OTHER}

DirSyncSi ==
    [SchedSi EXCEPT !["r1"] = NewSi(MSAD_DIRSYNC, SYNCDATA_DEFAULT, RetryFinite, 7)]

InitDirSync ==
    \E k \in DirSyncCookies \cup {""} :
        InitWith(DirSyncSi,
                 [r \in Replicas |-> IF r = "r3" THEN NoRq ELSE NewRq(DirSyncSi[r].si_interval)],
                 [EmptyBe EXCEPT !.dirSyncCookie = k])

StepDirSync(r) ==
    \/ RunTask(r)
    \/ Establish(r, {NetOk})
    \/ Rep2(r)
    \/ Recv(r, DirSyncMsgs(r), DirSyncOuts, {FALSE})
    \/ Reload(r, {NetOk})

NextDirSync == \E r \in Replicas : StepDirSync(r)

SpecDirSync == InitDirSync /\ [][NextDirSync]_vars

(* ---- the configuration specification: replica directives are added to  *)
(* a database that has none                                                 *)
MaxConf == 2
MaxArgs == 4
ConfArgs ==
    {<<"rid", "1">>, <<"rid", "2">>, <<"rid", "x">>, <<"rid", "1000">>,
     <<"provider", "ldap://p1">>, <<"provider", "ldap://p2">>,
     <<"searchbase", "dc=a">>, <<"searchbase", "dc=z">>,
     <<"type", "refreshOnly">>, <<"type", "refreshAndPersist">>,
     <<"interval", "7">>, <<"bogus", "1">>}
ConfLines == UNION {[1..n -> ConfArgs] : n \in 1..MaxArgs}

InitConfig ==
    InitWith([r \in Replicas |-> [SchedSi[r] EXCEPT !.si_re = NULL]],
             [r \in Replicas |-> NoRq], EmptyBe)

AddSyncrepl ==
    /\ Len(be.conf) < MaxConf
    /\ \E argv \in ConfLines :
         Install(SetBe(St, "conf", add_syncrepl(be.conf, argv).conf))
    /\ UNCHANGED slapd_shutdown

NextConfig == AddSyncrepl

SpecConfig == InitConfig /\ [][NextConfig]_vars

(* ---- the deletion specification: the database holds u1 and u2 of an     *)
(* earlier refresh; both are gone at the provider, whose refresh names no   *)
(* entry and ends with a newer cookie: for r1 in a refresh-present message, *)
(* for r2 in the search result; slapd may be told to shut down at any       *)
(* moment, also during the deletion pass                                    *)
CutMsgs(r) ==
    IF r = "r1"
    THEN {InterMsg("REFRESH_PRESENT", 1, <<Csn(1, 2)>>), TimeoutMsg}
    ELSE {ResultMsg(LDAP_SUCCESS, <<Csn(1, 2)>>, 0), TimeoutMsg}

StepCut(r) ==
    \/ RunTask(r)
    \/ ConnEvent(r)
    \/ Establish(r, CookieNets)
    \/ Rep2(r)
    \/ Recv(r, CutMsgs(r), SchedOuts, {FALSE})
    \/ RecvStop(r, CutMsgs(r))
    \/ Commit(r, {FALSE})
    \/ Commit2(r, CookieMods, {FALSE})
    \/ Reload(r, CookieNets)

NextCut == (\E r \in Replicas : StepCut(r)) \/ Shutdown

SpecCut == InitRefresh /\ [][NextCut]_vars

(* ---- the sync-id-set specification: the database holds u1 and u2 from an *)
(* earlier refresh; the provider of r1 names u1 as present and sends         *)
(* sync-id-sets, with and without refreshDeletes, that list u2 or nothing,   *)
(* then ends the refresh; r2 polls the same database                         *)
IdSetMsgs(r) ==
    IF r = "r1"
    THEN {EntryMsg(LDAP_SYNC_PRESENT, "u1", NoCsn, <<>>)}
         \cup {IdSetMsg(us, rd, <<>>) : us \in {{}, {"u2"}}, rd \in {0, 1}}
         \cup {InterMsg("REFRESH_PRESENT", 1, <<Csn(1, 2)>>)}
    ELSE {ResultMsg(LDAP_SUCCESS, <<>>, 0)}

StepIdSet(r) ==
    \/ RunTask(r)
    \/ Establish(r, CookieNets)
    \/ Rep2(r)
    \/ Recv(r, IdSetMsgs(r), SchedOuts, {FALSE})
    \/ RecvNullSet(r, IdSetMsgs(r))
    \/ Apply(r, SchedOuts, {FALSE})
    \/ Commit(r, {FALSE})
    \/ Commit2(r, CookieMods, {FALSE})
    \/ Reload(r, CookieNets)

NextIdSet == \E r \in Replicas : StepIdSet(r)

SpecIdSet == InitRefresh /\ [][NextIdSet]_vars

(* ---- the change-number specification: as the delta-sync specification,  *)
(* but the context entry holds any number of a last change replayed and the *)
(* DSEE provider advertises any range of change numbers                     *)
MaxChange == 3
RangeNets ==
    {n \in {[NetOk EXCEPT !.first = f, !.last = l] : f \in 1..MaxChange, l \in 1..MaxChange} :
        n.first <= n.last}
    \cup {[NetOk EXCEPT !.gotrange = FALSE]}

InitRange ==
    \E n \in 0..MaxChange :
       InitWith(DeltaSi, [r \in Replicas |-> IF r = "r3" THEN NoRq ELSE NewRq(DeltaSi[r].si_interval)],
                [NewBe([u \in UUIDs |-> NoEntry], <<Csn(1, 1)>>, NULL, FALSE)
                    EXCEPT !.lastchange = n])

StepRange(r) ==
    \/ RunTask(r)
    \/ Establish(r, RangeNets)
    \/ Rep2(r)
    \/ Recv(r, DeltaMsgs(r), SchedOuts, {FALSE})
    \/ Pend(r)
    \/ Apply(r, SchedOuts, {FALSE})
    \/ Commit(r, {FALSE})
    \/ Commit2(r, SchedOuts, {FALSE})
    \/ Reload(r, RangeNets)

NextRange == \E r \in Replicas : StepRange(r)

SpecRange == InitRange /\ [][NextRange]_vars

(* ---- the comparison specification: the database stores any vector     *)
(* sorted by sid as its contextCSN; the provider of r1 announces any such   *)
(* vector as a new cookie, and r1 compares each with the cookie it sent     *)
CmpVectors == {v \in Vectors : v # <<>> /\ \A i \in 1..Len(v) : v[i].sid # -1}
CmpMsgs(r) ==
    IF r = "r1"
    THEN {InterMsg("NEW_COOKIE", 0, b) : b \in CmpVectors}
    ELSE {ResultMsg(LDAP_SUCCESS, <<>>, 0)}

InitCompare ==
    \E a \in CmpVectors :
       InitWith(SchedSi, [r \in Replicas |-> IF r = "r3" THEN NoRq ELSE NewRq(SchedSi[r].si_interval)],
                NewBe([u \in UUIDs |-> NoEntry], a, NULL, FALSE))

StepCompare(r) ==
    \/ RunTask(r)
    \/ Establish(r, CookieNets)
    \/ Rep2(r)
    \/ Recv(r, CmpMsgs(r), SchedOuts, {FALSE})
    \/ Commit(r, {FALSE})
    \/ Commit2(r, SchedOuts, {FALSE})
    \/ Reload(r, CookieNets)

NextCompare == \E r \in Replicas : StepCompare(r)

SpecCompare == InitCompare /\ [][NextCompare]_vars

(* ---- properties of the cookie specification ---- *)

\* C1: for every sid, the CSN the committed vector holds for that sid is
\* never lower than a CSN the committed vector held for that sid before.
C1_CommittedMonotonic ==
    [][\A sid \in Sids :
          Held(cs'.cs_vals, sid) # 0 => Held(cs'.cs_vals, sid) >= be.hi[sid]]_vars

(* ---- properties of the gate specification ---- *)

\* a replica that start_refresh took off the runqueue
Parked(r) == si[r].si_paused # 0 /\ rq[r].state \in {"stopped", "removed"}

C5_NamedSurvive == be.lost = {}

\* do_syncrep2 has returned SYNC_PAUSED to do_syncrepl
PausedAt(r) == th[r].pc = "post" /\ th[r].rc = SYNC_PAUSED
\* between the paused return and the resumed do_syncrep2
Resuming(r) ==
    /\ si[r].si_ld /\ si[r].si_msgid # 0
    /\ \/ PausedAt(r)
       \/ th[r].pc = "idle" /\ rq[r].state = "sched" /\ rq[r].wait = 0
       \/ th[r].pc \in {"entry", "rep2"}
SameSearch(r) ==
    /\ si'[r] = [si[r] EXCEPT !.si_too_old = si'[r].si_too_old]
    /\ (cs'.cs_refreshing = r) = (cs.cs_refreshing = r)
    /\ be'.named[r] = be.named[r]
C9_Step(r) ==
    /\ ~PausedAt(r) /\ PausedAt(r)' =>
          /\ si'[r].si_ld /\ si'[r].si_msgid # 0
          /\ cs.cs_refreshing = r /\ si'[r].si_refreshDone = 0 => cs'.cs_refreshing = r
    /\ Resuming(r) =>
          /\ SameSearch(r)
          /\ th'[r] # th[r] =>
                IF PausedAt(r)
                THEN /\ th'[r].pc = "idle" /\ rq'[r].state = "sched" /\ rq'[r].wait = 0
                     /\ rq'[r].interval = si[r].si_interval
                ELSE IF th[r].pc = "idle" THEN th'[r].pc = "entry"
                ELSE IF th[r].pc = "entry" THEN th'[r].pc = "rep2"
                ELSE /\ th'[r].pc = "loop"
                     /\ th'[r].refreshing = (si[r].si_refreshDone = 0)
\* C9: a pool pause seen after a message makes do_syncrep2 return SYNC_PAUSED
\* with the search still outstanding; the task is put back on the runqueue at
\* zero delay, and the next invocation goes back into do_syncrep2 with the
\* same connection, message id, present list, retry counts and hold of the
\* gate, and without sending the search again
C9_PauseResumes == [][\A r \in Replicas : C9_Step(r)]_vars
\* r1 was paused in the middle of its refresh and is back on the runqueue at
\* zero delay with its search outstanding, u1 on the present list, the gate
\* held and no retry consumed, while r2 waits for the gate
C9_Witness ==
    /\ th["r1"].pc = "idle" /\ rq["r1"].state = "sched" /\ rq["r1"].wait = 0
    /\ si["r1"].si_ld /\ si["r1"].si_msgid # 0
    /\ si["r1"].si_presentlist = {"u1"} /\ si["r1"].si_refreshDone = 0
    /\ si["r1"].si_retrynum = RetryFinite
    /\ cs.cs_refreshing = "r1" /\ si["r2"].si_paused # 0

(* ---- properties of the shutdown specification ---- *)
\* do_syncrep2 has seen the flag and returned SYNC_SHUTDOWN to do_syncrepl
ShutAt(r) == th[r].pc = "post" /\ th[r].rc = SYNC_SHUTDOWN
InMessage(r) == th[r].pc \in {"pend", "apply", "commit", "commit2"}
C8_Step(r) ==
    \* at the prologue and at the next message nothing more is applied
    /\ slapd_shutdown /\ th[r].pc \in {"rep2", "loop"} /\ th'[r] # th[r] =>
          /\ th'[r].pc = "post"
          /\ th'[r].rc \in {SYNC_SHUTDOWN, SYNC_TIMEOUT, LDAP_SERVER_DOWN}
          /\ be'.entries = be.entries /\ be'.contextCSN = be.contextCSN
          /\ cs'.cs_vals = cs.cs_vals /\ cs'.cs_pvals = cs.cs_pvals
    \* a message being applied is not cut short by the flag
    /\ slapd_shutdown /\ InMessage(r) /\ th'[r] # th[r] =>
          /\ InMessage(r)' \/ th'[r].pc \in {"loop", "post"}
          /\ th'[r].rc # SYNC_SHUTDOWN
    \* leaving do_syncrep2 with SYNC_SHUTDOWN
    /\ ~ShutAt(r) /\ ShutAt(r)' =>
          /\ slapd_shutdown /\ ~InMessage(r)
          /\ ~si'[r].si_ld
          /\ cs'.cs_refreshing # r /\ cs'.cs_pmutex # r
    \* the rest of do_syncrepl
    /\ ShutAt(r) /\ th'[r] # th[r] =>
          /\ th'[r].pc = "idle"
          /\ rq'[r].state = "removed" /\ si'[r].si_re = NULL
          /\ si'[r].si_retrynum = si[r].si_retrynum
          /\ ~si'[r].si_ld /\ ~si'[r].si_conn
          /\ cs'.cs_refreshing # r /\ cs'.cs_pmutex # r
\* C8: once slapd_shutdown is set, a session inside do_syncrep2 applies no
\* further message: a message already being applied is completed, and at the
\* next message (or at the prologue) do_syncrep2 returns SYNC_SHUTDOWN with
\* the connection dropped, the gate released and the pending-CSN mutex not
\* held; do_syncrepl then removes the task from the runqueue without
\* touching the retry counts
C8_ShutdownStops == [][\A r \in Replicas : C8_Step(r)]_vars
\* r1 was stopped by the flag after its change had been applied and
\* committed: the task is gone, no retry was consumed, nothing is held
C8_Witness ==
    /\ slapd_shutdown /\ th["r1"].pc = "idle"
    /\ rq["r1"].state = "removed" /\ si["r1"].si_re = NULL
    /\ si["r1"].si_retrynum = RetryFinite
    /\ ~si["r1"].si_ld /\ ~si["r1"].si_conn
    /\ cs.cs_refreshing = NULL /\ cs.cs_pmutex = NULL
    /\ be.entries["u1"].exists /\ cs.cs_vals = <<Csn(1, 1), Csn(2, 1)>>

(* ---- properties of the cookie specification, continued ---- *)

\* C2: no CSN is used by more than one successful local write.
C2_NoDoubleApply == be.rewritten = {}

(* ---- properties of the freshness specification ---- *)
\* the CSN is not newer than the one the vector holds for its sid
Stale(csn, vals) == Held(vals, csn.sid) # 0 /\ csn.t <= Held(vals, csn.sid)
\* the message changed nothing and r holds no lock
Dropped(s, r) ==
    /\ s.be.entries = be.entries /\ s.be.contextCSN = be.contextCSN
    /\ s.be.written = be.written
    /\ s.cs.cs_vals = cs.cs_vals /\ s.cs.cs_pvals = cs.cs_pvals
    /\ s.cs.cs_pmutex # r /\ s.cs.cs_updating = cs.cs_updating
    /\ s.th[r].punlock = -1 /\ s.th[r].pc \notin {"pend", "apply", "commit", "commit2"}
\* every search entry with a cookie that a provider may send
AnyEntry ==
    {EntryMsg(ss, u, c, <<c>>) : ss \in {LDAP_SYNC_ADD, LDAP_SYNC_MODIFY, LDAP_SYNC_DELETE},
                                 u \in UUIDs, c \in {Csn(sid, t) : sid \in Sids, t \in 1..2}}
\* C11: a search entry whose cookie CSN is not newer than the committed CSN,
\* or than the pending CSN, of its sid is dropped: nothing is written, the
\* committed and the pending vector stay as they are, and cs_pmutex is not
\* left locked
C11_StaleDropped ==
    \A r \in Replicas :
        /\ th[r].pc = "loop" =>
             \A msg \in AnyEntry :
                Stale(msg.cookie[1], cs.cs_vals)
                    => Dropped(recv_entry(St, r, msg, LDAP_SUCCESS, FALSE), r)
        /\ th[r].pc = "pend" /\ cs.cs_pmutex = NULL /\ Stale(th[r].syncCookie[1], cs.cs_pvals)
             => Dropped(pending_check(St, r), r)
\* r2 passed the committed check and waited for cs_pmutex while r1 applied
\* and committed the same change; the pending check has then dropped it
C11_Witness ==
    /\ th["r2"].pc = "post" /\ th["r2"].rc = 0 /\ si["r2"].si_too_old = 0
    /\ si["r2"].si_ld /\ rq["r2"].state = "running"
    /\ cs.cs_pvals = <<Csn(2, 1)>> /\ cs.cs_pmutex = NULL
    /\ be.written = {Csn(2, 1)}

\* the session of r is as it was before the message: same connection, same
\* search, same retry counts, same flags and present list (check_syncprov may
\* have brought the replica's cookie up to the committed vector)
SameSession(s, r) ==
    s.si[r] = [si[r] EXCEPT !.si_too_old = s.si[r].si_too_old, !.si_conn = s.si[r].si_conn,
                            !.si_syncCookie = s.si[r].si_syncCookie,
                            !.si_cookieAge = s.si[r].si_cookieAge]
\* do_syncrep2 has returned 0; the rest of do_syncrepl, the next invocation
\* on the connection and the prologue of do_syncrep2 lead back to the loop
BackInLoop(s2, r) ==
    /\ s2.th[r].pc = "post" /\ s2.th[r].rc = 0
    /\ \A s3 \in {do_syncrepl_reload(s2, r, NetOk)} :
         /\ s3.rq[r].state = "defer" /\ s3.si[r].si_conn /\ SameSession(s3, r)
         /\ \A s5 \in {do_syncrep2_enter(
                          do_syncrepl_session(do_syncrepl_enter(s3, r, FALSE), r, NetOk, FALSE),
                          r, FALSE)} :
              /\ s5.th[r].pc = "loop" /\ SameSession(s5, r)
              /\ (s5.cs.cs_refreshing = r) = (cs.cs_refreshing = r)
\* an add of an entry not found by its UUID
IsAdd(r) ==
    /\ th[r].pc = "apply" /\ th[r].msg.syncstate = LDAP_SYNC_ADD
    /\ ~be.entries[th[r].msg.uuid].exists
    /\ ~(si[r].si_type = LDAP_SYNC_REFRESH_AND_PERSIST /\ si[r].si_refreshDone # 0)
    /\ th[r].punlock >= 0 \/ cs.cs_pmutex = NULL
\* C12: a message dropped as stale, an add that meets an existing DN and an
\* add whose ancestors have to be created as glue do not end the session:
\* the connection stays, the retry counts stay, and the loop goes on with
\* the same search
C12_NonFatalContinues ==
    \A r \in Replicas :
        /\ th[r].pc = "loop" =>
             \A msg \in AnyEntry :
                Stale(msg.cookie[1], cs.cs_vals)
                    => BackInLoop(recv_entry(St, r, msg, LDAP_SUCCESS, FALSE), r)
        /\ th[r].pc = "pend" /\ cs.cs_pmutex = NULL /\ Stale(th[r].syncCookie[1], cs.cs_pvals)
             => BackInLoop(pending_check(St, r), r)
        /\ IsAdd(r) =>
             \A out \in {LDAP_ALREADY_EXISTS, LDAP_NO_SUCH_OBJECT} :
                \A s2 \in {apply_entry(St, r, out, FALSE)} :
                   /\ s2.th[r].pc \in {"commit", "loop"}
                   /\ s2.si[r] = [si[r] EXCEPT !.si_presentlist = s2.si[r].si_presentlist]
                   /\ si[r].si_presentlist \subseteq s2.si[r].si_presentlist
                   /\ s2.si[r].si_ld /\ s2.rq[r] = rq[r]
                   /\ s2.be.entries[th[r].msg.uuid].exists
\* r2 met an existing DN (or a missing parent) when adding u1, and is back
\* in the loop of the same search with u1 written and its cookie committed
C12_Witness ==
    /\ th["r2"].pc = "loop" /\ si["r2"].si_ld /\ si["r2"].si_msgid # 0
    /\ si["r2"].si_refreshDone = 0 /\ si["r2"].si_retrynum = RetryFinite
    /\ be.entries["u1"].exists /\ cs.cs_vals = <<Csn(1, 1), Csn(2, 1)>>
    /\ th["r1"].pc = "idle" /\ ~si["r1"].si_ld

(* ---- properties of the delta-sync specification ---- *)
InLog(s, r) == s.si[r].si_syncdata # SYNCDATA_DEFAULT /\ s.si[r].si_logstate = SYNCLOG_LOGGING
InFallback(s, r) == s.si[r].si_syncdata # SYNCDATA_DEFAULT /\ s.si[r].si_logstate = SYNCLOG_FALLBACK
\* s2: the message was not applied, the replica is in fallback and its session
\* closed; do_syncrepl then re-schedules the task with no interval
Fellback(s2, r) ==
    /\ InFallback(s2, r) /\ s2.be.entries = be.entries
    /\ s2.th[r].pc = "post" /\ s2.th[r].rc = LDAP_SYNC_REFRESH_REQUIRED /\ ~s2.si[r].si_ld
    /\ \A s3 \in {do_syncrepl_reload(s2, r, NetOk)} :
          /\ s3.th[r].pc = "idle" /\ InFallback(s3, r)
          /\ s3.rq[r].state = "sched" /\ s3.rq[r].wait = 0
\* s2: the refresh is over, the replica is in logging state on the same
\* connection; do_syncrepl sends the log search at once, without re-scheduling
Resumed(s2, r) ==
    /\ InLog(s2, r) /\ s2.si[r].si_refreshDone = 1 /\ s2.cs.cs_refreshing # r
    /\ s2.th[r].pc = "post" /\ s2.th[r].rc = LDAP_SYNC_REFRESH_REQUIRED /\ s2.si[r].si_ld
    /\ \A s3 \in {do_syncrepl_reload(s2, r, NetOk)} :
          /\ s3.th[r].pc = "rep2" /\ InLog(s3, r) /\ s3.rq[r] = rq[r]
          /\ s3.si[r].si_ld /\ s3.si[r].si_msgid # 0 /\ s3.si[r].si_type = si[r].si_ctype
          /\ s3.cs.cs_refreshing # r
\* C14: a delta-sync replica in logging state that is answered
\* refresh-required, or whose replay of a logged change fails with one of the
\* lost-sync codes, switches to fallback, ends the session and is re-scheduled
\* at once; a session in fallback is a refresh-only search under the refresh
\* gate; when its search result is a success the replica is in logging state
\* again and the log search is sent in the same invocation of do_syncrepl
C14_DeltaFallback ==
    \A r \in Replicas :
        /\ th[r].pc = "loop" /\ InLog(St, r) =>
              /\ Fellback(recv_result(St, r, ResultMsg(LDAP_SYNC_REFRESH_REQUIRED, <<>>, 0), FALSE), r)
              /\ si[r].si_syncdata = SYNCDATA_CHANGELOG =>
                    \A out \in {e \in DeltaOuts : lost_sync(e)} :
                       Fellback(recv_entry(St, r, EntryMsg(LDAP_SYNC_ADD, "u2", NoCsn, <<>>),
                                           out, FALSE), r)
        /\ th[r].pc = "apply" /\ InLog(St, r) /\ (th[r].punlock >= 0 \/ cs.cs_pmutex = NULL) =>
              \A out \in {e \in DeltaOuts : lost_sync(e)} :
                 Fellback(apply_entry(St, r, out, FALSE), r)
        /\ th[r].pc \in {"loop", "pend", "apply", "commit", "commit2"} /\ InFallback(St, r) =>
              /\ si[r].si_type = LDAP_SYNC_REFRESH_ONLY /\ cs.cs_refreshing = r
              /\ th[r].refreshing
        /\ th[r].pc = "loop" /\ InFallback(St, r) =>
              Resumed(recv_result(St, r, ResultMsg(LDAP_SUCCESS, <<>>, 0), FALSE), r)
        /\ th[r].pc \in {"commit", "commit2"} /\ th[r].cont = "result" /\ InFallback(St, r) =>
              \A s2 \in {result_finish(St, r, th[r].msg.err)} :
                 th[r].msg.err = LDAP_SUCCESS => Resumed(s2, r)
\* r1, which started in logging state, has been through fallback: its
\* refresh has just ended with a success and it is in logging state again,
\* about to send the log search
C14_Witness ==
    /\ th["r1"].pc = "post" /\ th["r1"].rc = LDAP_SYNC_REFRESH_REQUIRED
    /\ InLog(St, "r1") /\ si["r1"].si_refreshDone = 1 /\ si["r1"].si_ld

\* C14 (as stated): a delta-sync replica that switched to fallback performs
\* the full refresh; it is never parked waiting for a refresh gate that it
\* holds itself
C14_FallbackRefreshes ==
    \A r \in Replicas :
        InFallback(St, r) /\ si[r].si_paused # 0 => cs.cs_refreshing # r

(* ---- the restart after a failed add in the persist phase ---- *)
\* an add of an entry not found by its UUID, on a refresh-and-persist
\* replica that has passed refresh-done
PersistAdd(r) ==
    /\ th[r].pc = "apply" /\ th[r].msg.syncstate = LDAP_SYNC_ADD
    /\ ~be.entries[th[r].msg.uuid].exists
    /\ si[r].si_type = LDAP_SYNC_REFRESH_AND_PERSIST /\ si[r].si_refreshDone # 0
    /\ th[r].punlock >= 0 \/ cs.cs_pmutex = NULL
\* the next invocation of do_syncrepl after the task was re-scheduled in s3
NextSession(s3, r) ==
    do_syncrepl_session(do_syncrepl_enter([s3 EXCEPT !.rq[r].state = "running"], r, FALSE),
                        r, NetOk, FALSE)
\* C15 (as stated): be_add answers no-such-object to an add in the persist
\* phase: the cookie of the replica and the committed vector are cleared and
\* the session ends; the search of the next session carries no cookie CSNs
\* and is a refresh under the gate
C15_DriftRestartsEmpty ==
    \A r \in Replicas :
        PersistAdd(r) =>
            \A s2 \in {apply_entry(St, r, LDAP_NO_SUCH_OBJECT, FALSE)} :
               /\ s2.si[r].si_syncCookie = <<>> /\ s2.cs.cs_vals = <<>>
               /\ s2.be.entries = be.entries
               /\ s2.th[r].pc = "post" /\ s2.th[r].rc = LDAP_NO_SUCH_OBJECT /\ ~s2.si[r].si_ld
               /\ \A s3 \in {do_syncrepl_reload(s2, r, NetOk)} :
                     s3.rq[r].state = "sched" =>
                        \A s4 \in {NextSession(s3, r)} :
                           s4.th[r].pc = "rep2" =>
                              /\ s4.si[r].si_syncCookie = <<>>
                              /\ s4.cs.cs_refreshing = r /\ s4.si[r].si_refreshDone = 0

(* ---- an entry transmitted again ---- *)
\* the message to apply is an add of an entry that an earlier transmission
\* has written: the search by UUID finds it with the entryCSN of the message
ReAdd(r) ==
    /\ th[r].pc = "apply" /\ th[r].msg.syncstate = LDAP_SYNC_ADD
    /\ th[r].msg.csn # NoCsn
    /\ be.entries[th[r].msg.uuid] = [exists |-> TRUE, csn |-> th[r].msg.csn]
    /\ th[r].punlock >= 0 \/ cs.cs_pmutex = NULL
\* C16: an add of an entry that is found by its UUID with the same entryCSN
\* writes nothing, whatever the backend would answer: the entries and the
\* record of the writes are unchanged and the message ends as a success
C16_ReAddNoWrite ==
    \A r \in Replicas :
        ReAdd(r) =>
            \A out \in FreshOuts \cup {LDAP_OTHER} :
               \A s2 \in {apply_entry(St, r, out, FALSE)} :
                  /\ s2.be.entries = be.entries /\ s2.be.contextCSN = be.contextCSN
                  /\ s2.be.written = be.written /\ s2.be.rewritten = be.rewritten
                  /\ s2.th[r].pc \in {"commit", "loop"} /\ s2.si[r].si_ld
\* r1 wrote u1 or u2 in a refresh that was then cut short by an error, and in
\* its next session the same add arrives again; r2 has not run
C16_Witness ==
    /\ ReAdd("r1") /\ si["r1"].si_refreshDone = 0
    /\ si["r1"].si_retrynum # si["r1"].si_retrynum_init
    /\ th["r2"].pc = "idle" /\ ~si["r2"].si_ld /\ si["r2"].si_refreshDone = 0
    /\ si["r2"].si_retrynum = si["r2"].si_retrynum_init

(* ---- properties of the tree specification ---- *)
\* the glue entries above dn, the suffix excluded
GlueAncestors(dit, dn) ==
    {SubSeq(dn, 1, i) : i \in (Len(be_nsuffix) + 1)..(Len(dn) - 1)}
\* dn is the last real entry below the suffix and all its ancestors are glue
LastReal(dit, dn) ==
    /\ dit[dn] = "real" /\ Children(dit, dn) = {}
    /\ \A x \in DNs \ {dn} : dit[x] = "real" => be_issuffix(x)
    /\ \A x \in GlueAncestors(dit, dn) : dit[x] = "glue" /\ Children(dit, x) \subseteq
                                                          {SubSeq(dn, 1, Len(x) + 1)}
\* C17 (as stated): the delete of the last real entry below glue ancestors
\* removes every glue ancestor below the suffix, and the suffix entry stays
C17_GlueWalkKeepsSuffix ==
    \A dn \in DNs \ {be_nsuffix} :
        LastReal(be.dit, dn) =>
            \A d2 \in {entry_delete(be.dit, dn), nonpresent_delete(be.dit, dn)} :
               /\ d2[dn] = "none"
               /\ \A x \in GlueAncestors(be.dit, dn) : d2[x] = "none"
               /\ d2[be_nsuffix] = be.dit[be_nsuffix]

StrictlyIncreasing(vals) == \A i \in 1..(Len(vals) - 1) : vals[i].sid < vals[i + 1].sid

C19_PendingNotBehind ==
    \A i \in 1..Len(cs.cs_pvals), j \in 1..Len(cs.cs_vals) :
        cs.cs_pvals[i].sid = cs.cs_vals[j].sid
            => ber_bvcmp(cs.cs_pvals[i], cs.cs_vals[j]) >= 0

\* C20: cs_age is incremented on every mutation of the committed vector
\* (the first load into an empty vector aside), so that a replica with an
\* older cached age detects the mutation at its next reconciliation
C20_AgeCountsMutations ==
    [][cs.cs_vals # <<>> /\ cs'.cs_vals # cs.cs_vals => cs'.cs_age > cs.cs_age]_vars

(* ---- properties of the merge specification ---- *)
Pairs(vals) == {vals[i] : i \in 1..Len(vals)}

\* C21: merging two vectors sorted by sid gives the same set of (sid, csn)
\* pairs in either order
C21_MergeCommutes ==
    \A r \in Replicas :
        \A a \in {si[r].si_syncCookie}, b \in {cs.cs_vals} :
            Pairs(merge_state(a, b).vals) = Pairs(merge_state(b, a).vals)

\* r1 has reconciled a cookie that held sid 1 with a committed vector that
\* holds an unparsed CSN and a new or newer CSN of sid 2
C21_Witness ==
    /\ si["r1"].si_cookieAge = cs.cs_age
    /\ Len(si["r1"].si_syncCookie) = 2 /\ Len(cs.cs_vals) = 2
    /\ cs.cs_vals[1].sid = -1 /\ si["r1"].si_syncCookie[1].sid = 1
    /\ si["r1"].si_syncCookie[2] = cs.cs_vals[2]

(* ---- properties of the resolver specification ---- *)
Applied == be.todo = {} /\ Len(be.reqlog) = Len(be.hist)
\* the first change of the history was applied after a later one
OutOfOrder == Len(be.reqlog) > 1 /\ \E k \in 2..Len(be.reqlog) : be.reqlog[k].csn.t = 1

\* C22 as stated: once the older modification has been rewritten against the
\* newer ones of the log and applied, the entry is as if the older
\* modification had never been sent
C22_AsIfNeverSent ==
    Applied /\ OutOfOrder =>
        be.attrs = InOrder(be.orig, [i \in 1..(Len(be.hist) - 1) |-> be.hist[i + 1].mods[1]])

\* C22: once every modification of the history has been applied, the older
\* one rewritten against the newer ones of the log, the entry is as if the
\* modifications had been applied in the order of their CSNs
C22_ResolverCommutes ==
    Applied => be.attrs = InOrder(be.orig, [i \in 1..Len(be.hist) |-> be.hist[i].mods[1]])

\* an older add of y was applied after a newer add of x and both values are
\* in the entry
C22_Witness ==
    /\ Applied /\ OutOfOrder
    /\ be.orig["a"] = {} /\ be.attrs["a"] = ModVals
    /\ Len(be.hist) = 2 /\ be.hist[1].mods[1] = Mod(LDAP_MOD_ADD, "a", {"y"})

\* the history with its first change moved in front of the changes that
\* the log holds, as the provider accepted them
OlderFirst ==
    <<be.hist[1].mods[1]>> \o [k \in 1..Len(be.reqlog) |-> be.hist[be.reqlog[k].csn.t].mods[1]]

\* C38: the older change, rewritten against the newer changes that were
\* applied before it, commutes with them: the engine accepts the rewritten
\* list, and the step that applies it leaves the entry that the original
\* older change followed by those newer changes gives
C38_RewrittenCommutes ==
    /\ [](1 \in be.todo /\ Len(be.reqlog) > 0 =>
            syncrepl_op_modify(be.attrs, be.entries["u1"].csn, be.reqlog,
                               cs.cs_vals, be.hist[1]).rc = LDAP_SUCCESS)
    /\ [][1 \in be.todo /\ Len(be.reqlog) > 0 /\ Len(be.reqlog') = Len(be.reqlog) + 1
          /\ be.reqlog'[Len(be.reqlog')].csn.t = 1
          => be.attrs' = InOrder(be.orig, OlderFirst)]_vars

\* an older delete of every value of a was applied after a newer add of x:
\* the value y that the entry held is gone and x is left
C38_Witness ==
    /\ Applied /\ OutOfOrder
    /\ be.orig["a"] = {"y"} /\ be.attrs["a"] = {"x"}
    /\ Len(be.hist) = 2 /\ be.hist[1].mods[1] = Mod(LDAP_MOD_DELETE, "a", {})
    /\ be.hist[2].mods[1] = Mod(LDAP_MOD_ADD, "a", {"x"})

(* ---- properties of the DirSync specification ---- *)
\* the poll of the DirSync replica r has ended with more changes remaining
MoreRemaining(r) ==
    /\ si[r].si_ctype = MSAD_DIRSYNC
    /\ th[r].pc = "post" /\ th[r].rc = LDAP_SYNC_REFRESH_REQUIRED

\* C23: a DirSync poll whose result carried a new cookie with continueFlag
\* has stored that cookie, and the replica's next step issues the next poll
\* with it, on the same connection and without a reschedule of its task
C23_ContinuePollsAtOnce ==
    [][\A r \in Replicas :
          MoreRemaining(r) /\ th'[r] # th[r]
          => /\ be.dirSyncCookie = si[r].si_dirSyncCookie
             /\ th'[r].pc = "rep2" /\ si'[r].si_ld /\ si'[r].si_msgid # 0
             /\ si'[r].ldctl_value = si[r].si_dirSyncCookie
             /\ rq'[r] = rq[r]]_vars

(* ---- properties of the configuration specification ---- *)
HasDuplicateKey(argv) == \E i, j \in 1..Len(argv) : i # j /\ argv[i][1] = argv[j][1]

\* C24: a replica directive in which a key appears more than once is
\* rejected and leaves the list of replicas as it was
C24_DuplicateKeyRejected ==
    \A argv \in ConfLines :
        HasDuplicateKey(argv)
        => LET a == add_syncrepl(be.conf, argv) IN a.rc # 0 /\ a.conf = be.conf

(* ---- properties of the deletion specification ---- *)
\* every CSN of the cookie sc is at or below the committed CSN of its sid
Covers(vals, sc) ==
    \A i \in 1..Len(sc) :
        \E j \in 1..Len(vals) : vals[j].sid = sc[i].sid /\ ber_bvcmp(sc[i], vals[j]) <= 0

\* C25: the committed vector never covers the cookie of a deletion pass
\* while an entry that the pass had to delete is still in the database
C25_CommittedIsApplied ==
    \A k \in be.skipped : be.entries[k.uuid].exists => ~Covers(cs.cs_vals, k.sc)

(* ---- properties of the delta-sync specification, continued ---- *)
\* C26: no replica is parked (stopped and marked paused by start_refresh)
\* on a refresh gate that it holds itself
C26_NeverParkedOnOwnGate ==
    \A r \in Replicas : ~(si[r].si_paused = 1 /\ cs.cs_refreshing = r)

(* ---- properties of the cookie specification: the updating flag ---- *)
\* the replicas between setting and clearing cs_updating
Updating == {r \in Replicas : th[r].pc = "commit2"}

\* C27: the flag is set exactly while one syncrepl_updateCookie is between
\* setting and clearing it, never two, and a committer that finds the flag
\* set stays where it is until the flag is cleared
C27_CommitsSerialized ==
    /\ [](Cardinality(Updating) = cs.cs_updating)
    /\ [][\A r \in Replicas :
             th[r].pc = "commit" /\ cs.cs_updating # 0 => th'[r] = th[r]]_vars

\* r1 is writing the contextCSN while r2 waits with its own cookie
C27_Witness ==
    /\ Updating = {"r1"} /\ cs.cs_updating = 1
    /\ th["r2"].pc = "commit" /\ Len(th["r2"].syncCookie) > 0

(* ---- properties of the cookie specification: the freshness gate ---- *)
\* the CSN of the change that the replica r is about to apply
IncomingCsn(r) ==
    IF Len(th[r].syncCookie) > 0 THEN th[r].syncCookie[1] ELSE th[r].msg.csn

\* the committed vector holds, at any position, a CSN of the same sid that
\* is at least as new
CommittedCovers(csn) ==
    \E i \in 1..Len(cs.cs_vals) :
        cs.cs_vals[i].sid = csn.sid /\ ber_bvcmp(csn, cs.cs_vals[i]) <= 0

\* C28: an add or modify whose CSN the committed vector covers is discarded
\* by the entry reconciler without a local write
C28_StaleDiscarded ==
    [][\A r \in Replicas :
          /\ th[r].pc = "apply" /\ th'[r] # th[r]
          /\ th[r].msg.syncstate \in {LDAP_SYNC_ADD, LDAP_SYNC_MODIFY}
          /\ IncomingCsn(r) # NoCsn /\ CommittedCovers(IncomingCsn(r))
          => be'.entries = be.entries /\ be'.written = be.written]_vars

C30_ApplyOutsideSiMutex ==
    [][\A r \in Replicas :
          th[r].pc = "apply" /\ th'[r] # th[r] => ~th[r].si_mutex]_vars

(* ---- properties of the cookie specification: a cookie that cannot be stored ---- *)
\* C31: when the write of a new cookie fails, syncrepl_updateCookie leaves
\* the committed vector, the session cookie of the replica and cs_age as
\* they were, clears the updating flag (which lets the waiters go on) and
\* returns the failure; the step of the replica that ends its session with
\* that failure leaves them alone as well
C31_FailedCommitKeepsState ==
    /\ [](\A r \in Replicas : th[r].pc = "commit2" =>
            \A modrc \in CookieMods \ {LDAP_SUCCESS} :
               LET a == updateCookie_end(St, r, modrc)
               IN /\ a.cs.cs_vals = cs.cs_vals /\ a.cs.cs_age = cs.cs_age
                  /\ a.si[r].si_syncCookie = si[r].si_syncCookie
                  /\ a.si[r].si_cookieAge = si[r].si_cookieAge
                  /\ a.be.contextCSN = be.contextCSN
                  /\ a.cs.cs_updating = 0 /\ a.ret = modrc)
    /\ [][\A r \in Replicas :
            th[r].pc = "commit2" /\ th'[r].pc = "post" /\ th'[r].rc = LDAP_OTHER =>
               /\ cs'.cs_vals = cs.cs_vals /\ cs'.cs_age = cs.cs_age
               /\ si'[r].si_syncCookie = si[r].si_syncCookie
               /\ cs'.cs_updating = 0]_vars

\* the write of a cookie failed while another replica waited for the
\* updating flag
C31_Witness ==
    \E r, q \in Replicas :
       /\ r # q /\ th[r].pc = "post" /\ th[r].rc = LDAP_OTHER
       /\ th[q].pc = "commit" /\ cs.cs_updating = 0 /\ cs.cs_vals # <<>>

(* ---- properties of the cookie specification: a change that cannot be applied ---- *)
\* C32: when the apply of an entry (or the store of its cookie) fails after
\* its CSN was recorded in the pending vector, the pending CSN of that sid
\* is reverted, so the pending check does not hold back a retransmission of
\* the same CSN
C32_FailedApplyReverts ==
    [][\A r \in Replicas :
          /\ th[r].pc \in {"apply", "commit2"} /\ th[r].punlock >= 0
          /\ th'[r].pc = "post" /\ th'[r].rc \in {LDAP_NO_SUCH_OBJECT, LDAP_OTHER}
          => check_csn_age(th[r].syncCookie[1], cs'.cs_pvals).rc # CV_CSN_OLD]_vars

\* the apply of an entry whose CSN had been recorded in the pending vector
\* failed and the slot of its sid, which has no committed CSN, was emptied
C32_Witness ==
    \E r \in Replicas :
       /\ th[r].pc = "post" /\ th[r].rc = LDAP_NO_SUCH_OBJECT
       /\ \E i \in 1..Len(cs.cs_pvals) :
             cs.cs_pvals[i].t = 0 /\ FindSid(cs.cs_vals, cs.cs_pvals[i].sid) = 0

(* ---- properties of the sync-id-set specification ---- *)
\* C33: the pass of a sync-id-set with refreshDeletes deletes only entries
\* whose UUID the set lists; a set that lists no UUID deletes no entry
C33_IdSetDeletesListed == be.unlisted = {}

(* ---- properties of the change-number specification ---- *)
\* the number of the last change the replica has replayed, as the session
\* that starts now will load it
StoredLastchange(r) ==
    IF si[r].si_lastchange = 0 /\ ~si[r].si_ld THEN be.lastchange ELSE si[r].si_lastchange

\* C34: a change-log session that sends its search with the stored
\* lastchange outside the range [first, last] the provider advertises, below
\* first or above last, is in fallback
C34_OutOfRangeFallsBack ==
    \A r \in Replicas :
       th[r].pc = "entry" /\ si[r].si_syncdata = SYNCDATA_CHANGELOG =>
          \A net \in RangeNets :
             LET a == do_syncrepl_session(St, r, net, FALSE)
             IN a.th[r].pc = "rep2" /\ net.gotrange
                /\ StoredLastchange(r) \notin net.first..net.last
                => a.si[r].si_logstate = SYNCLOG_FALLBACK

(* ---- properties of the comparison specification ---- *)
\* a has a sid b lacks, or a CSN of a precedes the CSN b holds for its sid
Precedes(a, b) ==
    \E i \in 1..Len(a) :
       \/ FindSid(b, a[i].sid) = 0
       \/ ber_bvcmp(a[i], b[FindSid(b, a[i].sid)]) < 0
\* the 0-based position of the first sid on which the vectors disagree
FirstDisagreement(a, b) ==
    (CHOOSE k \in 1..(Len(a) + Len(b) + 1) :
        /\ k > Len(a) \/ k > Len(b) \/ a[k] # b[k]
        /\ \A l \in 1..(k - 1) : l <= Len(a) /\ l <= Len(b) /\ a[l] = b[l]) - 1

\* C35: compare_csns(a, b) returns -1 if a has a sid b lacks or a CSN of a
\* precedes the matching one of b, +1 in the symmetric case, 0 if the
\* vectors are equal on every shared sid and neither has an extra sid, and
\* its index is the position of the first disagreeing sid; a is the cookie
\* the replica sent, b any cookie the provider may answer with
C35_CompareAsSpecified ==
    \A r \in Replicas :
       th[r].pc = "loop" /\ Len(th[r].syncCookie_req) > 0 =>
          \A b \in CmpVectors :
             LET a == th[r].syncCookie_req
                 c == compare_csns(a, b)
             IN /\ Precedes(a, b) => c.match = -1
                /\ ~Precedes(a, b) /\ Precedes(b, a) => c.match = 1
                /\ ~Precedes(a, b) /\ ~Precedes(b, a) => c.match = 0
                /\ c.match # 0 => c.which = FirstDisagreement(a, b)

(* ---- properties of the merge specification: the merged vector ---- *)
SidsOf(v) == {v[i].sid : i \in 1..Len(v)}
\* the CSN the vector holds for a sid it has
CsnOf(v, sid) == v[FindSid(v, sid)]

\* C36: merge_state(local, remote) returns exactly the sids of local and
\* remote other than -1, in increasing order of sid, each with the greater
\* of the two CSNs, and reports a change if and only if a CSN was advanced
\* or a sid was inserted; local is the cookie of a replica that is about to
\* reconcile it, remote the committed vector
C36_MergeAsSpecified ==
    \A r \in Replicas :
       si[r].si_cookieAge # cs.cs_age =>
          LET local == si[r].si_syncCookie
              remote == cs.cs_vals
              m == merge_state(local, remote)
              sids == (SidsOf(local) \cup SidsOf(remote)) \ {-1}
          IN /\ SidsOf(m.vals) = sids
             /\ \A i, j \in 1..Len(m.vals) : i < j => m.vals[i].sid < m.vals[j].sid
             /\ \A i \in 1..Len(m.vals) :
                   LET sid == m.vals[i].sid
                   IN m.vals[i] = IF sid \notin SidsOf(local) THEN CsnOf(remote, sid)
                                  ELSE IF sid \notin SidsOf(remote) THEN CsnOf(local, sid)
                                  ELSE IF ber_bvcmp(CsnOf(local, sid), CsnOf(remote, sid)) < 0
                                  THEN CsnOf(remote, sid) ELSE CsnOf(local, sid)
             /\ m.changed = 1 <=> \E i \in 1..Len(m.vals) : m.vals[i] \notin Pairs(local)

(* ---- properties of the pair specification ---- *)
IsDelete(m) == m.sml_op \in {LDAP_MOD_DELETE, SLAP_MOD_SOFTDEL}
\* the truth table of the resolver for an older mod m1 and a newer mod m2,
\* as the resolver sees them, on the entry e: the list that is left of m1
TruthTable(m1, m2, e) ==
    LET X == m2.sml_values
        less(vs) == IF vs \ X = {} THEN <<>> ELSE <<[m1 EXCEPT !.sml_values = vs \ X]>>
    IN IF m1.sml_desc # m2.sml_desc THEN <<m1>>
       \* a newer delete-all, and a newer replace as one: drop m1
       ELSE IF m2.sml_op = LDAP_MOD_REPLACE \/ (IsDelete(m2) /\ X = {}) THEN <<>>
       ELSE IF IsDelete(m2)
       THEN IF IsDelete(m1) /\ m1.sml_values = {}
            \* delete-all against delete-X: a delete of the current values
            THEN <<[m1 EXCEPT !.sml_values = e[m1.sml_desc]]>>
            \* delete-X or add-X against delete-X: X is dropped from m1
            ELSE less(m1.sml_values)
       ELSE IF IsDelete(m1) /\ m1.sml_values = {}
            \* delete-all against add-X: the current values without X
            THEN less(e[m1.sml_desc])
            ELSE IF IsDelete(m1) THEN less(m1.sml_values)
            ELSE IF is_at_single_value(m1.sml_desc) THEN <<>>
            ELSE less(m1.sml_values)
\* what a mod does to the entry e: a delete without values is a delete of
\* the values the entry holds
Action(m, e) ==
    [desc |-> m.sml_desc, delete |-> IsDelete(m),
     vals |-> IF IsDelete(m) /\ m.sml_values = {} THEN e[m.sml_desc] ELSE m.sml_values]
RECURSIVE TableOf(_, _, _)
TableOf(oldmods, m2, e) ==
    IF Len(oldmods) = 0 THEN <<>>
    ELSE TruthTable(oldmods[1], m2, e) \o TableOf(Tail(oldmods), m2, e)
\* every newer mod of the record in turn against what is left of the older list
RECURSIVE TableAll(_, _, _)
TableAll(oldmods, newmods, e) ==
    IF Len(newmods) = 0 THEN oldmods
    ELSE TableAll(TableOf(oldmods, newmods[1], e), Tail(newmods), e)

Woken(q) ==
    /\ si[q].si_paused # 0 /\ si'[q].si_paused = 0
    /\ th'[q] = th[q]

\* C39: a step that wakes a parked replica changes, of that replica, only
\* the paused flag and the next run time: its task is back on the runqueue
\* with the refresh interval configured for that replica, and nothing else
\* of its state differs
C39_WakeFrame ==
    [][\A q \in Replicas :
          Woken(q) =>
             /\ si'[q] = [si[q] EXCEPT !.si_paused = 0]
             /\ rq'[q].state = "sched" /\ rq'[q].wait = 0
             /\ rq'[q].interval = si[q].si_interval]_vars

(* ---- properties of the chaining specification ---- *)
\* C40: a non-search operation that was answered with a referral of several
\* URIs has been sent to the first of them at most, and to no other
C40_OnlyFirstFollowed ==
    /\ be.chain.pc = "done" /\ be.chain.tag \in ChainTags \ {"search"}
    /\ Len(be.chain.ref) > 1 /\ be.chain.lip_url = NULL
    => \A k \in 1..Len(be.chain.followed) :
          LET p == ldap_url_parse_ext(be.chain.ref[1])
          IN /\ p.rc = LDAP_URL_SUCCESS
             /\ be.chain.followed[k] = ldap_url_desc2str([p.srv EXCEPT !.lud_dn = ""])
====
